---- MODULE Spec2Model ----
(***************************************************************************)
(* A model of the ITR temperature-alignment tool:                          *)
(*   - DataWarehouse.__init__ (target projection, then S3 -> S1S2          *)
(*     consolidation) under the specification Spec;                        *)
(*   - DataWarehouse.get_preprocessed_company_data and its cumulative      *)
(*     emissions under SpecCum;                                            *)
(*   - the tables of DataVaultWarehouse (cumulative emissions and budget,  *)
(*     overshoot ratios, temperature scores), get_pa_temp_scores and       *)
(*     compute_portfolio_weights under SpecVault;                          *)
(*   - ICompanyData.__init__ (derivation of the base-year values) under    *)
(*     SpecCompany, and the loops that build a batch of companies under    *)
(*     SpecBatch;                                                          *)
(*   - the unit-typed fields and their validators under SpecUnits, and     *)
(*     the validation of ITargetData under SpecTarget;                     *)
(*   - the trajectory and target projections, whose code is not among the  *)
(*     sources modelled and which follow the written specification, under  *)
(*     SpecTrajectory and SpecTargetProjection;                            *)
(*   - _fixup_year_value_list under SpecFixup and the inference of the     *)
(*     production metric (_sector_to_production_units) under SpecSector;   *)
(*   - the benchmark lookups, the projected production and the SDA path    *)
(*     of the benchmark providers under SpecBench;                         *)
(*   - DataWarehouse.__init__ run repeatedly over one provider under       *)
(*     SpecRebuild.                                                        *)
(* The specifications share the variables; each one keeps the variables    *)
(* of the others at their idle values.                                     *)
(*                                                                         *)
(* Quantities are exact rationals with the two special values of floating  *)
(* point, NaN and the infinities.  The statements of DataVaultWarehouse    *)
(* are modelled from line 512 on; the call of the base constructor with    *)
(* company_data=None at line 490 is not part of CreateCumulativeTables.    *)
(***************************************************************************)
EXTENDS Integers, Sequences, FiniteSets, TLC

\* ------------------------------------------------------------------ bounds
\* Number of calendar years a series may cover, starting at BASE_YEAR.
NYears == 2

\* Number of calendar years the tables of the data vault cover, starting at
\* BASE_YEAR.
NVaultYears == 3

\* ProjectionControls.BASE_YEAR
BASE_YEAR == 2019

Years == BASE_YEAR .. (BASE_YEAR + NYears - 1)

\* The companies held by the company data provider, in list order.
CompanyIds == <<"c1", "c2">>

Companies == {CompanyIds[i] : i \in 1..Len(CompanyIds)}

VARIABLES
    \* --- DataWarehouse.__init__ ---
    companies,      \* company id -> company record (mutated in place)
    input,          \* company id -> the record as it was handed to __init__
    step,           \* position in StepOrder (Len+1 when __init__ has returned)
    idx,            \* position of the consolidation loop in CompanyIds
    raised,         \* TRUE once __init__ has been left by an exception
    visited,        \* companies whose consolidation iteration has begun
    staleReads,     \* companies that were already visited when projected
    \* --- DataWarehouse.get_preprocessed_company_data ---
    frames,         \* the DataFrames the call works on, and the historic EI
    na_skipped,     \* whether the row sums of this run skip missing values
    aggregates,     \* the cumulative columns the call returns (<<>> before it)
    \* --- DataVaultWarehouse: the tables of the data vault ---
    vault,                  \* company, production, trajectory, target, benchmark_ei
    cumulative_emissions,   \* company -> row (<<>> until created)
    cumulative_budget_1,    \* company -> row
    overshoot_ratios,       \* company -> row
    temperature_scores,     \* company -> row
    \* --- get_pa_temp_scores and compute_portfolio_weights ---
    call,                   \* arguments of get_pa_temp_scores and whether it raised
    pa_temp_scores,         \* the series it returned (<<>> before, and when it raised)
    weighted_scores,        \* the series compute_portfolio_weights returned
    \* --- ICompanyData.__init__ ---
    ctor,                   \* the arguments of a construction and, once run, its outcome
    \* --- the loops that build a batch of companies ---
    batch,                  \* the rows, the position of the loop and its output
    \* --- unit-typed fields ---
    quant,                  \* a quantity offered to a field, and what became of it
    \* --- stated targets ---
    itarget,                \* the fields given for a target, and the outcome of its validation
    \* --- trajectory projection ---
    traj,                   \* a historic intensity series, the controls and the projected series
    \* --- target projection ---
    tproj,                  \* a stated target, the series stored for it and the series recomputed
    \* --- _fixup_year_value_list ---
    fixup,                  \* an unprocessed list of year values, its metrics and the list returned
    \* --- _sector_to_production_units ---
    sectorq,                \* a company's sector and region, and the production metric inferred
    \* --- benchmark providers ---
    bench,                  \* a benchmark set, a company row and the result of a provider call
    \* --- DataWarehouse built again ---
    rebuild                 \* a company of a provider over which DataWarehouse is built repeatedly

dwVars == <<companies, input, step, idx, raised, visited, staleReads>>

cumVars == <<frames, na_skipped, aggregates>>

vaultVars == <<vault, cumulative_emissions, cumulative_budget_1, overshoot_ratios,
               temperature_scores, call, pa_temp_scores, weighted_scores>>

vars == <<companies, input, step, idx, raised, visited, staleReads,
          frames, na_skipped, aggregates,
          vault, cumulative_emissions, cumulative_budget_1, overshoot_ratios,
          temperature_scores, call, pa_temp_scores, weighted_scores,
          ctor, batch, quant, itarget, traj, tproj, fixup, sectorq, bench, rebuild>>

auxVars == <<ctor, batch, quant, itarget, traj, tproj, fixup, sectorq, bench, rebuild>>

AuxIdle == ctor = <<>> /\ batch = <<>> /\ quant = <<>> /\ itarget = <<>> /\ traj = <<>> /\ tproj = <<>> /\ fixup = <<>> /\ sectorq = <<>> /\ bench = <<>> /\ rebuild = <<>>

\* ----------------------------------------------------------- numbers
\* A float is modelled exactly: a rational n/d in lowest terms (d > 0), NaN,
\* or an infinity (n is its sign).  Arithmetic follows IEEE 754.
Min(a, b) == IF a < b THEN a ELSE b

Abs(a) == IF a < 0 THEN -a ELSE a

Sign(a) == IF a < 0 THEN -1 ELSE IF a = 0 THEN 0 ELSE 1

RECURSIVE Gcd(_, _)
Gcd(a, b) == IF b = 0 THEN a ELSE Gcd(b, a % b)

NaN == [k |-> "nan", n |-> 0, d |-> 1]

Inf(sign) == [k |-> "inf", n |-> sign, d |-> 1]

Rat(n, d) ==
    LET g == Gcd(Abs(n), Abs(d))
    IN  [k |-> "num", n |-> Sign(d) * (n \div g), d |-> Abs(d) \div g]

Num(n) == [k |-> "num", n |-> n, d |-> 1]

IsNaN(x) == x.k = "nan"

RNeg(x) == [x EXCEPT !.n = -x.n]

RAdd(x, y) ==
    IF IsNaN(x) \/ IsNaN(y) THEN NaN
    ELSE IF x.k = "inf" /\ y.k = "inf" THEN (IF x.n = y.n THEN x ELSE NaN)
    ELSE IF x.k = "inf" THEN x
    ELSE IF y.k = "inf" THEN y
    ELSE LET g == Gcd(x.d, y.d)
         IN  Rat(x.n * (y.d \div g) + y.n * (x.d \div g), (x.d \div g) * y.d)

RSub(x, y) == RAdd(x, RNeg(y))

RMul(x, y) ==
    IF IsNaN(x) \/ IsNaN(y) THEN NaN
    ELSE IF x.k = "inf" \/ y.k = "inf"
         THEN (IF x.n = 0 \/ y.n = 0 THEN NaN ELSE Inf(Sign(x.n) * Sign(y.n)))
    ELSE LET g == Gcd(Abs(x.n), y.d)
             h == Gcd(Abs(y.n), x.d)
         IN  Rat((x.n \div g) * (y.n \div h), (x.d \div h) * (y.d \div g))

RDiv(x, y) ==
    IF IsNaN(x) \/ IsNaN(y) THEN NaN
    ELSE IF x.k = "inf" THEN (IF y.k = "inf" THEN NaN
                             ELSE Inf(x.n * (IF y.n < 0 THEN -1 ELSE 1)))
    ELSE IF y.k = "inf" THEN Num(0)
    ELSE IF y.n = 0 THEN (IF x.n = 0 THEN NaN ELSE Inf(Sign(x.n)))
    ELSE LET g == Gcd(Abs(x.n), Abs(y.n))
             h == Gcd(y.d, x.d)
         IN  Rat((x.n \div g) * (y.d \div h), (x.d \div h) * (y.n \div g))

\* ------------------------------------------------------------ series

\* A list of realizations / projections: records with a year and a value.
\* The values of the S1S2 lists are tens, those of the S3 lists are units,
\* so that a merged value shows both of its terms.
S1S2Value(y) == 10 * (y - BASE_YEAR + 1)

S3Value(y) == y - BASE_YEAR + 1

S1S2Lists ==
    { [i \in 1..n |-> [year |-> BASE_YEAR + i - 1, value |-> S1S2Value(BASE_YEAR + i - 1)]]
        : n \in 0..NYears }

S3ListsFrom(s) ==
    { [i \in 1..n |-> [year |-> s + i - 1, value |-> S3Value(s + i - 1)]]
        : n \in 0..(BASE_YEAR + NYears - s) }

S3Lists == UNION {S3ListsFrom(s) : s \in Years}

YearsOf(list) == {list[i].year : i \in 1..Len(list)}

\* ghg_s3 is Optional: None, a NaN quantity, or a number of t CO2.
GhgS3Values ==
    { [kind |-> "None", m |-> 0], [kind |-> "NaN", m |-> 0],
      [kind |-> "Q", m |-> 0], [kind |-> "Q", m |-> 1] }

\* ------------------------------------------------- company records
\* The record the provider holds for a company before DataWarehouse.__init__:
\* a is the S1S2 list and b the S3 list of every series the company has;
\* mode says where the company carries S3 data ("absent": no historic data at
\* all and no S3 projections).  projected_targets is None until projected.
CompanyRecord(ghg3, a, b, mode) ==
    [ ghg_s1s2 |-> 5,
      ghg_s3 |-> ghg3,
      historic_data |->
        [ present |-> mode # "absent",
          emissions |->
            [S1S2 |-> a, S3 |-> IF mode \in {"historic", "both"} THEN b ELSE <<>>],
          emissions_intensities |->
            [S1S2 |-> a, S3 |-> IF mode \in {"historic", "both"} THEN b ELSE <<>>] ],
      projected_intensities |->
        [ S1S2 |-> [projections |-> a],
          S3 |-> [present |-> mode \in {"projected", "both"},
                  projections |-> IF mode \in {"projected", "both"} THEN b ELSE <<>>] ],
      projected_targets |->
        [ present |-> FALSE,
          S1S2 |-> [projections |-> <<>>],
          S3 |-> [present |-> FALSE, projections |-> <<>>] ] ]

S3Modes == {"absent", "historic", "projected", "both"}

\* ICompanyData.__init__ derives ghg_s3 from the historic S3 data when it is
\* not given: a company that has historic S3 data never has ghg_s3 = None.
CompanyRecords ==
    { CompanyRecord(g, a, b, m) :
        <<g, a, b, m>> \in
            { t \in GhgS3Values \X S1S2Lists \X S3Lists \X S3Modes :
                t[1].kind = "None" => ~(t[4] \in {"historic", "both"} /\ t[3] # <<>>) } }

\* company_data._calculate_target_projections, for one company: the target
\* series of each scope the company has trajectory data for (scope by scope).
ProjectTargets(c) ==
    [c EXCEPT !.projected_targets =
        [ present |-> TRUE,
          S1S2 |-> c.projected_intensities.S1S2,
          S3 |-> c.projected_intensities.S3 ]]

\* ------------------------------------------- DataWarehouse.__init__
\* The two statements of __init__ after the field assignments, in order.
\* The two steps of the constructor, and the same steps the other way round.
StepOrderMergeFirst == <<"consolidate", "project">>

StepOrder == <<"project", "consolidate">>

Phase ==
    IF raised THEN "raised"
    ELSE IF step > Len(StepOrder) THEN "done"
    ELSE StepOrder[step]

\* list(map(X.add, s1s2, s3)): map stops at the shorter list; add asserts
\* that the two years of a pair are equal.
AddFails(s1s2, s3) ==
    \E i \in 1..Min(Len(s1s2), Len(s3)) : s1s2[i].year # s3[i].year

AddLists(s1s2, s3) ==
    [i \in 1..Min(Len(s1s2), Len(s3)) |->
        [year |-> s1s2[i].year, value |-> s1s2[i].value + s3[i].value]]

\* `if c.ghg_s3 and not ITR.isnan(c.ghg_s3.m)`: None and a zero quantity are
\* falsy, a NaN quantity is truthy but excluded by isnan.
GhgS3Mergeable(g) == g.kind = "Q" /\ g.m # 0

\* The merge of ghg_s3 without the reset of ghg_s3 that follows it.
MergeGhgKeepsS3(r) ==
    IF r.err \/ ~GhgS3Mergeable(r.c.ghg_s3) THEN r
    ELSE [r EXCEPT !.c.ghg_s1s2 = r.c.ghg_s1s2 + r.c.ghg_s3.m]

\* Each Merge* takes and returns [c |-> company record, err |-> exception raised].
MergeGhg(r) ==
    IF r.err \/ ~GhgS3Mergeable(r.c.ghg_s3) THEN r
    ELSE [r EXCEPT !.c.ghg_s1s2 = r.c.ghg_s1s2 + r.c.ghg_s3.m,
                   !.c.ghg_s3 = [kind |-> "Q", m |-> 0]]

MergeHistoricEmissions(r) ==
    LET e == r.c.historic_data.emissions IN
    IF r.err \/ ~r.c.historic_data.present \/ e.S3 = <<>> THEN r
    ELSE IF AddFails(e.S1S2, e.S3) THEN [r EXCEPT !.err = TRUE]
    ELSE [r EXCEPT !.c.historic_data.emissions =
                        [S1S2 |-> AddLists(e.S1S2, e.S3), S3 |-> <<>>]]

MergeHistoricEI(r) ==
    LET e == r.c.historic_data.emissions_intensities IN
    IF r.err \/ ~r.c.historic_data.present \/ e.S3 = <<>> THEN r
    ELSE IF AddFails(e.S1S2, e.S3) THEN [r EXCEPT !.err = TRUE]
    ELSE [r EXCEPT !.c.historic_data.emissions_intensities =
                        [S1S2 |-> AddLists(e.S1S2, e.S3), S3 |-> <<>>]]

NoS3 == [present |-> FALSE, projections |-> <<>>]

MergeProjectedIntensities(r) ==
    LET p == r.c.projected_intensities IN
    IF r.err \/ ~p.S3.present THEN r
    ELSE IF AddFails(p.S1S2.projections, p.S3.projections) THEN [r EXCEPT !.err = TRUE]
    ELSE [r EXCEPT !.c.projected_intensities =
                        [ S1S2 |-> [projections |->
                                      AddLists(p.S1S2.projections, p.S3.projections)],
                          S3 |-> NoS3 ]]

\* c.projected_targets.S3 on a company whose projected_targets is still None
\* is an AttributeError.
MergeProjectedTargets(r) ==
    LET p == r.c.projected_targets IN
    IF r.err THEN r
    ELSE IF ~p.present THEN [r EXCEPT !.err = TRUE]
    ELSE IF ~p.S3.present THEN r
    ELSE IF AddFails(p.S1S2.projections, p.S3.projections) THEN [r EXCEPT !.err = TRUE]
    ELSE [r EXCEPT !.c.projected_targets =
                        [ present |-> TRUE,
                          S1S2 |-> [projections |->
                                      AddLists(p.S1S2.projections, p.S3.projections)],
                          S3 |-> NoS3 ]]

\* One iteration of the loop over company_data._companies.
Consolidate(c) ==
    MergeProjectedTargets(
        MergeProjectedIntensities(
            MergeHistoricEI(
                MergeHistoricEmissions(
                    MergeGhg([c |-> c, err |-> FALSE])))))

CumIdle ==
    /\ frames = <<>>
    /\ na_skipped = FALSE
    /\ aggregates = <<>>

DwInit ==
    /\ input \in [Companies -> CompanyRecords]
    /\ companies = input
    /\ step = 1
    /\ idx = 1
    /\ raised = FALSE
    /\ visited = {}
    /\ staleReads = {}

CalculateTargetProjections ==
    /\ Phase = "project"
    /\ companies' = [c \in Companies |-> ProjectTargets(companies[c])]
    /\ staleReads' = staleReads \cup visited
    /\ step' = step + 1
    /\ UNCHANGED <<input, idx, raised, visited>>
    /\ UNCHANGED <<cumVars, vaultVars, auxVars>>

ConsolidateCompany ==
    /\ Phase = "consolidate"
    /\ idx <= Len(CompanyIds)
    /\ LET id == CompanyIds[idx]
           r == Consolidate(companies[id])
       IN /\ companies' = [companies EXCEPT ![id] = r.c]
          /\ raised' = r.err
          /\ visited' = visited \cup {id}
          /\ idx' = IF r.err THEN idx ELSE idx + 1
          /\ step' = IF ~r.err /\ idx = Len(CompanyIds) THEN step + 1 ELSE step
    /\ UNCHANGED <<input, staleReads>>
    /\ UNCHANGED <<cumVars, vaultVars, auxVars>>

DwNext == CalculateTargetProjections \/ ConsolidateCompany

DwIdle ==
    /\ companies = <<>>
    /\ input = <<>>
    /\ step = 0
    /\ idx = 0
    /\ raised = FALSE
    /\ visited = {}
    /\ staleReads = {}

\* The companies whose consolidation iteration has completed without raising.
Consolidated == {CompanyIds[i] : i \in 1..(idx - 1)}

\* The record of a company as the consolidation loop finds it.
Before(id) == ProjectTargets(input[id])

\* ------------------------- DataWarehouse.get_preprocessed_company_data
\* A DataFrame is a function from row labels (company ids) to rows, a row a
\* function from column labels (years) to values.
RowLabels(df) == DOMAIN df

RECURSIVE SumSkipNa(_, _)
SumSkipNa(row, cols) ==
    IF cols = {} THEN Num(0)
    ELSE LET y == CHOOSE c \in cols : \A o \in cols : c <= o
             rest == SumSkipNa(row, cols \ {y})
         IN  IF IsNaN(row[y]) THEN rest ELSE RAdd(row[y], rest)

RECURSIVE SumKeepNa(_, _)
SumKeepNa(row, cols) ==
    IF cols = {} THEN Num(0)
    ELSE LET y == CHOOSE c \in cols : \A o \in cols : c <= o
         IN  RAdd(row[y], SumKeepNa(row, cols \ {y}))

\* DataFrame.multiply: element by element, aligned on the row and the
\* column labels; a label one operand lacks gives a missing value.
Multiply(a, b) ==
    [r \in RowLabels(a) \cup RowLabels(b) |->
        IF r \in RowLabels(a) /\ r \in RowLabels(b)
        THEN [y \in DOMAIN a[r] \cup DOMAIN b[r] |->
                IF y \in DOMAIN a[r] /\ y \in DOMAIN b[r]
                THEN RMul(a[r][y], b[r][y]) ELSE NaN]
        ELSE [y \in {} |-> NaN]]

\* DataFrame.sum(axis=1) with the default skipna=True.  Whether the flag takes
\* effect depends on the dtype of the frame: a PintArray reduction drops the
\* NaN magnitudes, an object column of Quantity values hides them from the
\* NA mask, and they propagate.
SumAxis1(df, skip) ==
    [r \in RowLabels(df) |->
        IF skip THEN SumSkipNa(df[r], DOMAIN df[r]) ELSE SumKeepNa(df[r], DOMAIN df[r])]

\* The product of the row totals in the place of the total of the products.
GetCumulativeEmissionsSumOfSums(projected_ei, projected_production, skip) ==
    LET e == SumAxis1(projected_ei, skip)
        q == SumAxis1(projected_production, skip)
    IN  [r \in RowLabels(projected_ei) |-> RMul(e[r], q[r])]

\* _get_cumulative_emissions: a Series of Mt CO2, one entry per row.
GetCumulativeEmissions(projected_ei, projected_production, skip) ==
    SumAxis1(Multiply(projected_ei, projected_production), skip)

\* historic_data['emissions_intensities']['S1S2'] on a company whose
\* historic_data, or its emissions_intensities, is None is a TypeError; the row
\* function gets there only when the first value of the row is missing.
FixRaggedRaises(targets, historic_ei) ==
    \E r \in RowLabels(targets) :
        LET year == CHOOSE c \in DOMAIN targets[r] : \A o \in DOMAIN targets[r] : c <= o
        IN  IsNaN(targets[r][year]) /\ ~historic_ei[r].present

\* fix_ragged_projected_targets applied to the first column of the frame.
FixRaggedProjectedTargets(targets, historic_ei) ==
    [r \in RowLabels(targets) |->
        LET year == CHOOSE c \in DOMAIN targets[r] : \A o \in DOMAIN targets[r] : c <= o
            x_val == targets[r][year]
            hist == historic_ei[r].S1S2
        IN  IF IsNaN(x_val) /\ \E i \in 1..Len(hist) : hist[i].year = year
            THEN [targets[r] EXCEPT ![year] =
                    hist[CHOOSE i \in 1..Len(hist) :
                            /\ hist[i].year = year
                            /\ \A j \in (i + 1)..Len(hist) : hist[j].year # year].value]
            ELSE targets[r]]

\* The frames of a call: c1 is a company with any data, c2 a company with
\* complete data.
ValueRows(vals) == [Years -> vals]

FrameOf(row1, v2) == [r \in Companies |-> IF r = "c1" THEN row1 ELSE [y \in Years |-> Num(v2)]]

HistoricEIs ==
    { [present |-> FALSE, S1S2 |-> <<>>] } \cup
    { [present |-> TRUE, S1S2 |-> l] :
        l \in { <<>>, <<[year |-> BASE_YEAR, value |-> Num(7)]>>,
                <<[year |-> BASE_YEAR - 1, value |-> Num(7)]>> } }

CumInit ==
    /\ \E t \in ValueRows({NaN, Num(1), Num(2)}),
          g \in ValueRows({NaN, Num(3)}),
          q \in ValueRows({NaN, Num(1), Num(2)}),
          h \in HistoricEIs :
          frames = [ projected_production |-> FrameOf(q, 4),
                     projected_trajectories |-> FrameOf(t, 3),
                     projected_targets |-> FrameOf(g, 2),
                     sda_benchmarks |-> FrameOf([y \in Years |-> Num(2)], 1),
                     historic_ei |-> [r \in Companies |->
                                        IF r = "c1" THEN h
                                        ELSE [present |-> TRUE, S1S2 |-> <<>>]] ]
    /\ na_skipped \in BOOLEAN
    /\ aggregates = [called |-> FALSE, raised |-> ""]

GetPreprocessedCompanyData ==
    /\ ~aggregates.called /\ aggregates.raised = ""
    /\ LET production == frames.projected_production
           targets == FixRaggedProjectedTargets(frames.projected_targets, frames.historic_ei)
           df_trajectory ==
               GetCumulativeEmissions(frames.projected_trajectories, production, na_skipped)
           df_target == GetCumulativeEmissions(targets, production, na_skipped)
           df_budget == GetCumulativeEmissions(frames.sda_benchmarks, production, na_skipped)
       IN aggregates' =
            IF FixRaggedRaises(frames.projected_targets, frames.historic_ei)
            THEN [ called |-> FALSE, raised |-> "TypeError" ]
            ELSE
            [ called |-> TRUE, raised |-> "",
              projected_targets |-> targets,
              rows |-> [r \in Companies |->
                          [ cumulative_trajectory |-> df_trajectory[r],
                            cumulative_target |-> df_target[r],
                            cumulative_budget |-> df_budget[r] ]] ]
    /\ UNCHANGED <<frames, na_skipped>>
    /\ UNCHANGED <<dwVars, vaultVars, auxVars>>


\* ------------------------------------------------ DataVaultWarehouse
VaultYears == BASE_YEAR .. (BASE_YEAR + NVaultYears - 1)

\* `where P.year>=2020`
FIRST_SQL_YEAR == 2020

SqlYears == {y \in VaultYears : y >= FIRST_SQL_YEAR}

LastVaultYear == BASE_YEAR + NVaultYears - 1

\* A column of a by-year table: v in the base year, one more each year;
\* "gap" lacks the last year, "none" every year.
Column(shape, v) ==
    [y \in VaultYears |->
        IF shape = "none" \/ (shape = "gap" /\ y = LastVaultYear) THEN NaN
        ELSE Num(v + y - BASE_YEAR)]

Shapes == {"full", "gap", "none"}

\* benchmark_temperature=Q_(1.5, ureg.delta_degC) and
\* benchmark_global_budget=Q_(396, ureg("Gt CO2")) of the benchmark set
BENCHMARK_TEMP == Rat(3, 2)

BENCHMARK_GLOBAL_BUDGET == 396

\* SQL sum() over the rows of a group; a NaN row makes the sum NaN.
RECURSIVE SqlSum(_, _)
SqlSum(f, ys) ==
    IF ys = {} THEN Num(0)
    ELSE LET y == CHOOSE c \in ys : \A o \in ys : c <= o
         IN  RAdd(f[y], SqlSum(f, ys \ {y}))

\* if(is_nan(x), 0.0, x)
IfNaNZero(x) == IF IsNaN(x) THEN Num(0) ELSE x

\* (ei_s1_by_year + if(is_nan(ei_s2_by_year), 0.0, ei_s2_by_year)) * production_by_year
EmissionsByYear(ei, production) ==
    [y \in SqlYears |->
        RMul(RAdd(ei[y].ei_s1_by_year, IfNaNZero(ei[y].ei_s2_by_year)), production[y])]

\* The benchmark rows joined to a company: those of its region and sector.
BenchmarkKey(c) == <<vault.company[c].region, vault.company[c].sector>>

HasBenchmark(c) == BenchmarkKey(c) \in DOMAIN vault.benchmark_ei

\* The values the weighting factor of company c1 may have in the company table.
Factors == {NaN, Num(0), Num(1), Num(3)}

EiTable(s1, s2) ==
    [y \in VaultYears |-> [ei_s1_by_year |-> s1[y], ei_s2_by_year |-> s2[y]]]

VaultTables(t1, t2, g1, g2, ps, region, level, factor) ==
    [ company |->
        [c \in Companies |->
            [ region |-> IF c = "c1" THEN region ELSE "North America",
              sector |-> "Electricity Utilities",
              factor |-> IF c = "c1" THEN factor ELSE Num(1) ]],
      production |->
        [c \in Companies |-> IF c = "c1" THEN Column(ps, 1) ELSE Column("full", 2)],
      trajectory |->
        [c \in Companies |->
            IF c = "c1" THEN EiTable(Column(t1, 1), Column(t2, 1))
            ELSE EiTable(Column("full", 3), Column("full", 1))],
      target |->
        [c \in Companies |->
            IF c = "c1" THEN EiTable(Column(g1, 1), Column(g2, 0))
            ELSE EiTable(Column("full", 2), Column("full", 0))],
      benchmark_ei |->
        [k \in {<<"North America", "Electricity Utilities">>,
                <<"Global", "Electricity Utilities">>} |->
            [ intensity |-> Column("full", level),
              global_budget |-> Num(BENCHMARK_GLOBAL_BUDGET),
              benchmark_temp |-> BENCHMARK_TEMP ]] ]

VaultInit ==
    /\ \E t1 \in Shapes, t2 \in {"full", "none"}, g1 \in Shapes, g2 \in {"full", "none"},
          ps \in {"full", "gap"}, region \in {"North America", "Asia"},
          level \in {1, 2}, factor \in Factors :
          vault = VaultTables(t1, t2, g1, g2, ps, region, level, factor)
    /\ cumulative_emissions = <<>>
    /\ cumulative_budget_1 = <<>>
    /\ overshoot_ratios = <<>>
    /\ temperature_scores = <<>>
    /\ call = <<>>
    /\ pa_temp_scores = <<>>
    /\ weighted_scores = <<>>

\* DataVaultWarehouse.__init__: create the tables cumulative_emissions and
\* cumulative_budget_1.
CreateCumulativeTables ==
    /\ cumulative_emissions = <<>>
    /\ cumulative_emissions' =
         [c \in Companies |->
            [ cumulative_trajectory |->
                SqlSum(EmissionsByYear(vault.trajectory[c], vault.production[c]), SqlYears),
              cumulative_target |->
                SqlSum(EmissionsByYear(vault.target[c], vault.production[c]), SqlYears) ]]
    /\ cumulative_budget_1' =
         [c \in {d \in Companies : HasBenchmark(d)} |->
            LET B == vault.benchmark_ei[BenchmarkKey(c)]
            IN  [ global_budget |-> B.global_budget,
                  benchmark_temp |-> B.benchmark_temp,
                  cumulative_budget |->
                    SqlSum([y \in SqlYears |-> RMul(B.intensity[y], vault.production[c][y])],
                           SqlYears) ]]
    /\ UNCHANGED <<vault, overshoot_ratios, temperature_scores>>
    /\ UNCHANGED <<call, pa_temp_scores, weighted_scores>>
    /\ UNCHANGED <<dwVars, cumVars, auxVars>>

\* TemperatureScoreConfig.CONTROLS_CONFIG: tcre='2.2 delta_degC',
\* carbon_conversion='3664.0 Gt CO2'; TemperatureScoreControls.tcre_multiplier
tcre == Rat(22, 10)

carbon_conversion == Num(3664)

tcre_multiplier == RDiv(tcre, carbon_conversion)

\* The literals 2.2 and 3664.0 of the temperature-score query.
SQL_TCRE == Rat(22, 10)

SQL_CARBON_CONVERSION == Num(3664)

\* The query with the overshoot ratio itself in the place of (ratio - 1).
TemperatureScoreNoBaseline(benchmark_temp, global_budget, ratio) ==
    RAdd(benchmark_temp,
         RDiv(RMul(RMul(global_budget, ratio), SQL_TCRE), SQL_CARBON_CONVERSION))

\* R.benchmark_temp + R.global_budget * (ratio - 1) * 2.2/3664.0
TemperatureScore(benchmark_temp, global_budget, ratio) ==
    RAdd(benchmark_temp,
         RDiv(RMul(RMul(global_budget, RSub(ratio, Num(1))), SQL_TCRE),
              SQL_CARBON_CONVERSION))

\* DataVaultWarehouse.quant_init: create overshoot_ratios and temperature_scores.
QuantInit ==
    /\ cumulative_emissions # <<>>
    /\ overshoot_ratios = <<>>
    /\ LET ratios ==
             [c \in DOMAIN cumulative_emissions \cap DOMAIN cumulative_budget_1 |->
                LET E == cumulative_emissions[c]
                    B == cumulative_budget_1[c]
                IN  [ global_budget |-> B.global_budget,
                      benchmark_temp |-> B.benchmark_temp,
                      trajectory_overshoot_ratio |->
                        RDiv(E.cumulative_trajectory, B.cumulative_budget),
                      target_overshoot_ratio |->
                        RDiv(E.cumulative_target, B.cumulative_budget) ]]
       IN /\ overshoot_ratios' = ratios
          /\ temperature_scores' =
               [c \in DOMAIN ratios |->
                  [ trajectory_temperature_score |->
                      TemperatureScore(ratios[c].benchmark_temp, ratios[c].global_budget,
                                       ratios[c].trajectory_overshoot_ratio),
                    target_temperature_score |->
                      TemperatureScore(ratios[c].benchmark_temp, ratios[c].global_budget,
                                       ratios[c].target_overshoot_ratio) ]]
    /\ UNCHANGED <<vault, cumulative_emissions, cumulative_budget_1>>
    /\ UNCHANGED <<call, pa_temp_scores, weighted_scores>>
    /\ UNCHANGED <<dwVars, cumVars, auxVars>>

\* ICompanyData.target_probability: float = 0.5
TARGET_PROBABILITY_DEFAULT == Rat(1, 2)

\* The probabilities and portfolios get_pa_temp_scores is called with; "c3" is
\* a company of the portfolio that the data vault does not hold.
Probabilities == {Rat(-1, 2), Num(0), TARGET_PROBABILITY_DEFAULT, Num(1), Rat(3, 2)}

Portfolios == {{"c1"}, {"c1", "c2"}, {"c2", "c3"}, {"c1", "c2", "c3"}}

\* probability < 0 or probability > 1
ProbabilityOutOfRange(probability) ==
    probability.n < 0 \/ probability.n > probability.d

\* The blend with the two scores exchanged.
BlendSwapped(row, probability) ==
    RAdd(RMul(row.trajectory_temperature_score, probability),
         RMul(row.target_temperature_score, RSub(Num(1), probability)))

\* target_temperature_score*probability + trajectory_temperature_score*(1-probability)
Blend(row, probability) ==
    RAdd(RMul(row.target_temperature_score, probability),
         RMul(row.trajectory_temperature_score, RSub(Num(1), probability)))

\* DataVaultWarehouse.get_pa_temp_scores
GetPaTempScores ==
    /\ temperature_scores # <<>>
    /\ call = <<>>
    /\ \E probability \in Probabilities, company_ids \in Portfolios :
         IF ProbabilityOutOfRange(probability)
         THEN /\ call' = [ probability |-> probability, company_ids |-> company_ids,
                           raised |-> "ValueError" ]
              /\ UNCHANGED pa_temp_scores
         ELSE /\ call' = [ probability |-> probability, company_ids |-> company_ids,
                           raised |-> "" ]
              /\ pa_temp_scores' =
                   [c \in company_ids |->
                      IF c \in DOMAIN temperature_scores
                      THEN Blend(temperature_scores[c], probability)
                      ELSE NaN]
    /\ UNCHANGED <<vault, cumulative_emissions, cumulative_budget_1, overshoot_ratios,
                   temperature_scores, weighted_scores>>
    /\ UNCHANGED <<dwVars, cumVars, auxVars>>

\* Series.sum() of a float series: missing entries are skipped.
RECURSIVE SeriesSum(_, _)
SeriesSum(f, ids) ==
    IF ids = {} THEN Num(0)
    ELSE LET c == CHOOSE x \in ids : TRUE
         IN  IF IsNaN(f[c]) THEN SeriesSum(f, ids \ {c})
             ELSE RAdd(f[c], SeriesSum(f, ids \ {c}))

\* pa_temp_scores.index.intersection(weights.index)
WeightIndex(scores, factor_sums) == DOMAIN scores \cap DOMAIN factor_sums

\* VaultCompanyDataProvider.compute_portfolio_weights, for a factor that is a
\* column of the company table
ComputePortfolioWeights ==
    /\ pa_temp_scores # <<>>
    /\ weighted_scores = <<>>
    /\ LET factor_sums == [c \in Companies |-> vault.company[c].factor]
           index == WeightIndex(pa_temp_scores, factor_sums)
           weights == [c \in index |-> factor_sums[c]]
           weight_sum == SeriesSum(weights, index)
       IN  weighted_scores' =
             [ weights |-> weights,
               weight_sum |-> weight_sum,
               retval |->
                 [c \in DOMAIN pa_temp_scores |->
                    IF c \in index
                    THEN RDiv(RMul(pa_temp_scores[c], weights[c]), weight_sum)
                    ELSE NaN] ]
    /\ UNCHANGED <<vault, cumulative_emissions, cumulative_budget_1, overshoot_ratios,
                   temperature_scores, call, pa_temp_scores>>
    /\ UNCHANGED <<dwVars, cumVars, auxVars>>

VaultNext ==
    CreateCumulativeTables \/ QuantInit \/ GetPaTempScores \/ ComputePortfolioWeights

VaultIdle ==
    /\ vault = <<>>
    /\ cumulative_emissions = <<>>
    /\ cumulative_budget_1 = <<>>
    /\ overshoot_ratios = <<>>
    /\ temperature_scores = <<>>
    /\ call = <<>>
    /\ pa_temp_scores = <<>>
    /\ weighted_scores = <<>>

\* ------------------------------------------------ ICompanyData.__init__
\* Number of calendar years a historic list covers, starting at BASE_YEAR.
NHistYears == 2

HistYears == BASE_YEAR .. (BASE_YEAR + NHistYears - 1)

\* An Optional quantity that is None.
None == [k |-> "none", n |-> 0, d |-> 1]

\* A historic list of realizations, in year order: "empty" is [], "nan" has
\* no value at all, "first" has a value in its first year only, "full" in
\* every year; the value is v in the first year and one more each year.
HistPatterns == {"empty", "nan", "first", "full"}

HistList(pattern, v) ==
    IF pattern = "empty" THEN <<>>
    ELSE [i \in 1..NHistYears |->
            [ year |-> BASE_YEAR + i - 1,
              value |-> IF pattern = "nan" \/ (pattern = "first" /\ i > 1) THEN NaN
                        ELSE Num(v + i - 1) ]]

\* _get_base_realization_from_historic; year 0 stands for None.
ValidRealizations(realized_values) ==
    SelectSeq(realized_values, LAMBDA rv : ~IsNaN(rv.value))

MostRecent(valid_realizations) ==
    valid_realizations[CHOOSE i \in 1..Len(valid_realizations) :
        \A j \in 1..Len(valid_realizations) :
            valid_realizations[j].year <= valid_realizations[i].year]

GetBaseRealizationFromHistoricAnyYear(realized_values, base_year) ==
    LET valid_realizations == ValidRealizations(realized_values)
    IN  IF Len(valid_realizations) = 0
        THEN [year |-> 0, value |-> realized_values[1].value]
        ELSE MostRecent(valid_realizations)

GetBaseRealizationFromHistoric(realized_values, base_year) ==
    LET valid_realizations == ValidRealizations(realized_values)
    IN  IF Len(valid_realizations) = 0
        THEN [year |-> 0, value |-> realized_values[1].value]
        ELSE IF base_year # 0 /\ MostRecent(valid_realizations).year # base_year
        THEN [year |-> base_year, value |-> NaN]
        ELSE MostRecent(valid_realizations)

\* `base_year or base_realization.year`
Or(base_year, year) == IF base_year # 0 THEN base_year ELSE year

\* The S1 and the S2 list of a historic scopes object, by pattern.
S1S2Pairs ==
    { <<"empty", "empty">>, <<"full", "full">>, <<"full", "first">>,
      <<"nan", "full">>, <<"full", "empty">> }

NoScopes == [present |-> FALSE, S1 |-> <<>>, S2 |-> <<>>, S1S2 |-> <<>>, S3 |-> <<>>]

\* IHistoricEmissionsScopes / IHistoricEIScopes: v12, v1, v2 and v3 are the
\* first values of the S1S2, S1, S2 and S3 lists.
ScopesOf(p12, pair, p3, v12, v1, v2, v3) ==
    [ present |-> TRUE,
      S1 |-> HistList(pair[1], v1),
      S2 |-> HistList(pair[2], v2),
      S1S2 |-> HistList(p12, v12),
      S3 |-> HistList(p3, v3) ]

EmissionsScopes ==
    {NoScopes} \cup
    { ScopesOf(p12, pair, p3, 50, 20, 30, 7) :
        p12 \in HistPatterns, pair \in S1S2Pairs, p3 \in {"empty", "full"} }

EIScopes ==
    {NoScopes} \cup
    { ScopesOf(p12, pair, p3, 5, 2, 3, 1) :
        p12 \in HistPatterns, pair \in S1S2Pairs, p3 \in {"empty", "full"} }

NoHistoricData ==
    [present |-> FALSE, productions |-> <<>>, emissions |-> NoScopes,
     emissions_intensities |-> NoScopes]

\* What _fixup_historic_data hands to the model: productions, emissions and
\* emissions_intensities are None when they are not given or empty.
HistoricDatas ==
    {NoHistoricData} \cup
    { [present |-> TRUE, productions |-> HistList(p, 100), emissions |-> e,
       emissions_intensities |-> ei] :
        p \in HistPatterns, e \in EmissionsScopes, ei \in EIScopes }

CtorArgs ==
    [ base_year_production : {None, Num(1000)},
      ghg_s1s2 : {None, Num(500)},
      ghg_s3 : {None, Num(70)},
      historic_data : HistoricDatas ]

\* base_year_production: the argument, else the base realization of the
\* historic productions, else NaN.
DeriveBaseYearProduction(a) ==
    LET h == a.historic_data IN
    IF a.base_year_production # None
    THEN [base_year |-> 0, base_year_production |-> a.base_year_production]
    ELSE IF h.present /\ h.productions # <<>>
    THEN LET base_realization == GetBaseRealizationFromHistoric(h.productions, 0)
         IN  [base_year |-> base_realization.year,
              base_year_production |-> base_realization.value]
    ELSE [base_year |-> 0, base_year_production |-> NaN]

\* ghg_s1s2 from the argument or the historic emissions (st: the state after
\* DeriveBaseYearProduction).
DeriveGhgFromEmissions(a, st) ==
    LET h == a.historic_data
        e == h.emissions
    IN  IF a.ghg_s1s2 # None
        THEN [base_year |-> st.base_year, ghg_s1s2 |-> a.ghg_s1s2]
        ELSE IF h.present /\ e.present /\ e.S1S2 # <<>>
        THEN LET base_realization == GetBaseRealizationFromHistoric(e.S1S2, st.base_year)
             IN  [base_year |-> Or(st.base_year, base_realization.year),
                  ghg_s1s2 |-> base_realization.value]
        ELSE IF h.present /\ e.present /\ e.S1 # <<>> /\ e.S2 # <<>>
        THEN LET base_realization_s1 == GetBaseRealizationFromHistoric(e.S1, st.base_year)
                 base_realization_s2 == GetBaseRealizationFromHistoric(e.S2, st.base_year)
             IN  [base_year |-> Or(st.base_year, base_realization_s1.year),
                  ghg_s1s2 |-> RAdd(base_realization_s1.value, base_realization_s2.value)]
        ELSE [base_year |-> st.base_year, ghg_s1s2 |-> None]

\* `if self.ghg_s1s2 is None and self.historic_data and
\* self.historic_data.emissions_intensities`
DeriveGhgFromIntensities(a, st, base_year_production) ==
    LET h == a.historic_data
        ei == h.emissions_intensities
        keep == [raised |-> "", base_year |-> st.base_year, ghg_s1s2 |-> st.ghg_s1s2]
    IN  IF ~(st.ghg_s1s2 = None /\ h.present /\ ei.present) THEN keep
        ELSE IF ei.S1S2 # <<>>
        THEN LET base_realization == GetBaseRealizationFromHistoric(ei.S1S2, st.base_year)
             IN  [raised |-> "", base_year |-> Or(st.base_year, base_realization.year),
                  ghg_s1s2 |-> RMul(base_realization.value, base_year_production)]
        ELSE IF ei.S1 # <<>> /\ ei.S2 # <<>>
        THEN LET base_realization_s1 == GetBaseRealizationFromHistoric(ei.S1, st.base_year)
                 base_realization_s2 == GetBaseRealizationFromHistoric(ei.S2, st.base_year)
             IN  [raised |-> "", base_year |-> Or(st.base_year, base_realization_s1.year),
                  ghg_s1s2 |-> RMul(RAdd(base_realization_s1.value,
                                         base_realization_s2.value),
                                    base_year_production)]
        ELSE [keep EXCEPT !.raised = "ValueError"]

\* ghg_s3: the argument, else the historic S3 emissions, else the historic S3
\* intensity times base_year_production, else None.
DeriveGhgS3(a, base_year, base_year_production) ==
    LET h == a.historic_data
        from_emissions ==
            IF a.ghg_s3 # None THEN a.ghg_s3
            ELSE IF h.present /\ h.emissions.present /\ h.emissions.S3 # <<>>
            THEN GetBaseRealizationFromHistoric(h.emissions.S3, base_year).value
            ELSE None
    IN  IF from_emissions = None /\ h.present /\ h.emissions_intensities.present
           /\ h.emissions_intensities.S3 # <<>>
        THEN RMul(GetBaseRealizationFromHistoric(h.emissions_intensities.S3,
                                                 base_year).value,
                  base_year_production)
        ELSE from_emissions

\* ICompanyData.__init__, from `base_year = None` on: the record, or the
\* exception it raises.
CompanyDataInit(a) ==
    LET p == DeriveBaseYearProduction(a)
        e == DeriveGhgFromEmissions(a, p)
        g == DeriveGhgFromIntensities(a, e, p.base_year_production)
    IN  IF g.raised # "" \/ g.ghg_s1s2 = None
        THEN [raised |-> "ValueError"]
        ELSE [ raised |-> "",
               base_year_production |-> p.base_year_production,
               ghg_s1s2 |-> g.ghg_s1s2,
               ghg_s3 |-> DeriveGhgS3(a, g.base_year, p.base_year_production) ]

CtorInit == ctor \in [args : CtorArgs, built : {<<>>}]

ConstructCompany ==
    /\ ctor.built = <<>>
    /\ ctor' = [ctor EXCEPT !.built = CompanyDataInit(ctor.args)]
    /\ UNCHANGED <<dwVars, cumVars, vaultVars, batch, quant, itarget, traj, tproj, fixup, sectorq, bench, rebuild>>

\* ------------------------------------------------ building a batch
\* Number of rows of a batch.
NBatch == 3

\* The three loops that build company models from rows: the first two wrap
\* each parse_obj in `try ... except ValidationError`, the third is a bare
\* list comprehension.
BatchFunctions ==
    {"_company_df_to_model", "_convert_df_to_model", "get_preprocessed_company_data"}

CatchesValidationError(fn) == fn \in {"_company_df_to_model", "_convert_df_to_model"}

\* Rows: a malformed record (pydantic raises ValidationError), a record with
\* its base values given, one whose base values are derived from its history,
\* and one whose ghg_s1s2 cannot be derived (__init__ raises ValueError).
BatchRows ==
    LET given ==
            [ base_year_production |-> Num(1000), ghg_s1s2 |-> Num(500),
              ghg_s3 |-> None, historic_data |-> NoHistoricData ]
        derived ==
            [ base_year_production |-> None, ghg_s1s2 |-> None, ghg_s3 |-> None,
              historic_data |->
                [ present |-> TRUE, productions |-> HistList("full", 100),
                  emissions |-> ScopesOf("full", <<"empty", "empty">>, "empty",
                                         50, 20, 30, 7),
                  emissions_intensities |-> NoScopes ] ]
        underivable ==
            [ base_year_production |-> Num(1000), ghg_s1s2 |-> None,
              ghg_s3 |-> None, historic_data |-> NoHistoricData ]
    IN  { [malformed |-> TRUE, args |-> given] } \cup
        { [malformed |-> FALSE, args |-> a] : a \in {given, derived, underivable} }

\* The exception parse_obj raises for a row ("" when it returns a model).
ParseObj(row) ==
    IF row.malformed THEN "ValidationError" ELSE CompanyDataInit(row.args).raised

BatchInit ==
    \E fn \in BatchFunctions, rows \in [1..NBatch -> BatchRows] :
        batch = [ fn |-> fn, rows |-> rows, i |-> 1, model_companies |-> <<>>,
                  warned |-> {}, raised |-> "" ]

\* One iteration of the loop over the rows.
BuildCompany ==
    /\ batch.raised = ""
    /\ batch.i <= Len(batch.rows)
    /\ LET exc == ParseObj(batch.rows[batch.i])
       IN  IF exc = ""
           THEN batch' = [batch EXCEPT !.model_companies = Append(@, batch.i),
                                       !.i = @ + 1]
           ELSE IF CatchesValidationError(batch.fn) /\ exc = "ValidationError"
           THEN batch' = [batch EXCEPT !.warned = @ \cup {batch.i}, !.i = @ + 1]
           ELSE batch' = [batch EXCEPT !.raised = exc, !.model_companies = <<>>]
    /\ UNCHANGED <<dwVars, cumVars, vaultVars, ctor, quant, itarget, traj, tproj, fixup, sectorq, bench, rebuild>>

\* ------------------------------------------------ unit-typed fields
\* The production units, each with the dimension the unit registry gives it.
_production_units ==
    [ u \in {"Wh", "t Steel", "pkm", "tkm", "boe", "t Aluminum", "t Cement", "USD", "m**2"} |->
        CASE u = "Wh"         -> "energy"
          [] u = "boe"        -> "energy"
          [] u = "t Steel"    -> "steel"
          [] u = "pkm"        -> "passenger_distance"
          [] u = "tkm"        -> "mass_distance"
          [] u = "t Aluminum" -> "aluminum"
          [] u = "t Cement"   -> "cement"
          [] u = "USD"        -> "currency"
          [] u = "m**2"       -> "area" ]

\* f"t CO2/({pu})" if ' ' in pu else f"t CO2/{pu}"
EiUnit(pu) ==
    IF pu \in {"t Steel", "t Aluminum", "t Cement"}
    THEN "t CO2/(" \o pu \o ")" ELSE "t CO2/" \o pu

_ei_units == { EiUnit(pu) : pu \in DOMAIN _production_units }

\* The units a quantity is offered in.
Units ==
    DOMAIN _production_units \cup _ei_units \cup {"t CO2", "Mt CO2", "delta_degC", "dimensionless"}

\* A dimension: the power of mass-of-CO2, the production dimension in the
\* numerator and in the denominator, the power of temperature.
Dimension(co2, num, den, temp) == [co2 |-> co2, num |-> num, den |-> den, temp |-> temp]

GetDimensionality(u) ==
    IF u \in DOMAIN _production_units THEN Dimension(0, _production_units[u], "", 0)
    ELSE IF u \in _ei_units
    THEN Dimension(1, "", _production_units[CHOOSE pu \in DOMAIN _production_units : EiUnit(pu) = u], 0)
    ELSE IF u \in {"t CO2", "Mt CO2"} THEN Dimension(1, "", "", 0)
    ELSE IF u = "delta_degC" THEN Dimension(0, "", "", 1)
    ELSE Dimension(0, "", "", 0)

\* quantity.check(dimensionality) and quantity.is_compatible_with(units)
Check(u, dimensionality) == GetDimensionality(u) = GetDimensionality(dimensionality)

\* The fields: three validated by their type when a model is parsed, two
\* assigned by ICompanyData.__init__ after the model has been validated.
QuantityFields ==
    { [name |-> "IProductionRealization.value", type |-> "production_quantity", assigned |-> FALSE],
      [name |-> "IEmissionRealization.value", type |-> "emissions_quantity", assigned |-> FALSE],
      [name |-> "ICompanyEIProjection.value", type |-> "ei_quantity", assigned |-> FALSE],
      [name |-> "ICompanyData.base_year_production", type |-> "production_quantity", assigned |-> TRUE],
      [name |-> "ICompanyData.ghg_s1s2", type |-> "emissions_quantity", assigned |-> TRUE] }

\* The units the type of a field allows.
DimsList(type) ==
    CASE type = "production_quantity" -> DOMAIN _production_units
      [] type = "ei_quantity"         -> _ei_units
      [] type = "emissions_quantity"  -> {"t CO2"}

\* validate of production_quantity and ei_quantity: the exception raised ("" if none)
QuantityValidate(type, u) ==
    IF \E dimensionality \in DimsList(type) : Check(u, dimensionality)
    THEN "" ELSE "DimensionalityError"

\* validate of emissions_quantity
EmissionsValidate(u) ==
    IF Check(u, "t CO2") THEN "" ELSE "AssertionError"

FieldInit ==
    \E f \in QuantityFields, u \in Units :
        quant = [ field |-> f, unit |-> u, done |-> FALSE, raised |-> "", stored |-> FALSE,
                  production |-> "", emissions |-> <<>> ]

\* A quantity of unit quant.unit is given for the field.
SetField ==
    /\ ~quant.done
    /\ LET f   == quant.field
           exc == IF f.assigned THEN ""      \* self.x = pint_ify(x, units): a Quantity is kept as it is
                  ELSE IF f.type = "emissions_quantity" THEN EmissionsValidate(quant.unit)
                  ELSE QuantityValidate(f.type, quant.unit)
       IN  quant' = [quant EXCEPT !.done = TRUE, !.raised = exc, !.stored = (exc = "")]
    /\ UNCHANGED <<dwVars, cumVars, vaultVars, ctor, batch, itarget, traj, tproj, fixup, sectorq, bench, rebuild>>

\* projected_ei.multiply(projected_production) ... .astype('pint[Mt CO2]')
MultiplyUnits(ei, production) ==
    LET e == GetDimensionality(ei)
        p == GetDimensionality(production)
    IN  IF e.den = p.num THEN Dimension(e.co2 + p.co2, "", "", 0)
        ELSE Dimension(e.co2 + p.co2, p.num, e.den, 0)

\* _get_cumulative_emissions on a stored intensity and a production of an
\* accepted production unit.
CumulativeEmissionsUnits ==
    /\ quant.stored /\ quant.field.type = "ei_quantity" /\ quant.production = ""
    /\ \E pu \in DOMAIN _production_units :
          LET product == MultiplyUnits(quant.unit, pu)
          IN  quant' = [quant EXCEPT !.production = pu, !.emissions = product,
                          !.raised = IF product = GetDimensionality("Mt CO2")
                                     THEN "" ELSE "DimensionalityError"]
    /\ UNCHANGED <<dwVars, cumVars, vaultVars, ctor, batch, itarget, traj, tproj, fixup, sectorq, bench, rebuild>>

UnitsNext == SetField \/ CumulativeEmissionsUnits

\* ------------------------------------------------ ITargetData
\* The target end years tried.
FirstEndYear == 2017
LastEndYear == 2028

\* The values given for target_type: the four literals of the field and one
\* that is none of them.
TargetTypes == {"intensity", "absolute", "Intensity", "Absolute", "relative"}

\* The fields that pass their own validation (year 0 stands for a missing
\* target_end_year, which is a required field).
ValidFields(t) ==
    (IF t.target_type \in {"intensity", "absolute", "Intensity", "Absolute"}
     THEN {"target_type"} ELSE {}) \cup
    (IF t.target_end_year # 0 THEN {"target_end_year"} ELSE {})

must_be_greater_than_2022_Accepts2022(v) ==
    IF v.target_end_year < 2022 THEN "ValueError" ELSE ""

\* The root validator: the exception it raises ("" if it returns v).
must_be_greater_than_2022(v) ==
    IF v.target_end_year < 2023 THEN "ValueError" ELSE ""

\* Validation of the model: the fields first, then the root validator on
\* the fields that passed; pydantic collects ValueError into ValidationError.
ValidateTarget(t) ==
    IF "target_end_year" \notin ValidFields(t) THEN "KeyError"  \* v['target_end_year']
    ELSE IF must_be_greater_than_2022(t) # "" THEN "ValidationError"
    ELSE IF ValidFields(t) # {"target_type", "target_end_year"} THEN "ValidationError"
    ELSE ""

TargetInit ==
    \E y \in (FirstEndYear..LastEndYear) \cup {0}, tt \in TargetTypes :
        itarget = [ target_end_year |-> y, target_type |-> tt, done |-> FALSE, raised |-> "" ]

\* ITargetData(**fields)
ConstructTarget ==
    /\ ~itarget.done
    /\ itarget' = [itarget EXCEPT !.done = TRUE, !.raised = ValidateTarget(itarget)]
    /\ UNCHANGED <<dwVars, cumVars, vaultVars, ctor, batch, quant, traj, tproj, fixup, sectorq, bench, rebuild>>

\* ------------------------------------------------ trajectory projection
\* The largest number of historic years, and of years projected after them.
NTrend == 3
NProjected == 3

\* ProjectionControls
LOWER_PERCENTILE == Rat(1, 10)
UPPER_PERCENTILE == Rat(9, 10)
LOWER_DELTA == Rat(-10, 100)
UPPER_DELTA == Rat(3, 100)

\* The historic intensities: one value per year from BASE_YEAR on.
IntensityValues == {90, 100, 200}

Histories == UNION { [1..n -> IntensityValues] : n \in 1..NTrend }

LastHistoricYear(h) == BASE_YEAR + Len(h) - 1

RLe(x, y) == x.n * y.d <= y.n * x.d

Clip(x, lower, upper) ==
    IF RLe(x, lower) THEN lower ELSE IF RLe(upper, x) THEN upper ELSE x

\* The central tendency (median) of the year-over-year percent changes of the
\* history, each change first trimmed to the percentile band of the changes.
TrimmedTrend(h) ==
    LET changes == [ i \in 1..(Len(h) - 1) |->
                       RSub(RDiv(Num(h[i + 1]), Num(h[i])), Num(1)) ]
        \* the k-th smallest element of a non-empty sequence
        OrderStat(seq, k) ==
            CHOOSE x \in { seq[i] : i \in DOMAIN seq } :
                /\ Cardinality({ i \in DOMAIN seq : ~RLe(x, seq[i]) }) < k
                /\ k <= Cardinality({ i \in DOMAIN seq : RLe(seq[i], x) })
        \* the p-quantile, interpolated linearly between order statistics
        Quantile(seq, p) ==
            LET m    == Len(seq)
                pos  == p.n * (m - 1)
                lo   == pos \div p.d
                frac == Rat(pos % p.d, p.d)
                x_lo == OrderStat(seq, lo + 1)
                x_hi == OrderStat(seq, Min(lo + 2, m))
            IN  RAdd(x_lo, RMul(frac, RSub(x_hi, x_lo)))
        trimmed == [ i \in DOMAIN changes |->
                       Clip(changes[i], Quantile(changes, LOWER_PERCENTILE),
                            Quantile(changes, UPPER_PERCENTILE)) ]
        m == Len(trimmed)
    IN  IF m % 2 = 1 THEN OrderStat(trimmed, (m + 1) \div 2)
        ELSE RDiv(RAdd(OrderStat(trimmed, m \div 2), OrderStat(trimmed, m \div 2 + 1)),
                  Num(2))

ClipDeltaUnclipped(rate) == rate

\* The growth rate is kept within the delta range.
ClipDelta(rate) == Clip(rate, LOWER_DELTA, UPPER_DELTA)

\* The constant forward growth rate; flat with fewer than two historic points.
TrendRate(h) ==
    IF Len(h) < 2 THEN Num(0)
    ELSE ClipDelta(TrimmedTrend(h))

\* The projected value of year y: the history, then the rate applied year after year.
RECURSIVE TrajectoryValue(_, _, _)
TrajectoryValue(h, rate, y) ==
    IF y <= LastHistoricYear(h) THEN Num(h[y - BASE_YEAR + 1])
    ELSE RMul(TrajectoryValue(h, rate, y - 1), RAdd(Num(1), rate))

TrajectoryInit ==
    \E h \in Histories, n \in 1..NProjected :
        traj = [ history |-> h, target_year |-> LastHistoricYear(h) + n,
                 done |-> FALSE, projections |-> <<>> ]

\* The trajectory of one company, from the base year to the target year.
ProjectTrajectory ==
    /\ ~traj.done
    /\ traj' = [traj EXCEPT
                  !.done = TRUE,
                  !.projections =
                      [ y \in BASE_YEAR..traj.target_year |->
                          TrajectoryValue(traj.history, TrendRate(traj.history), y) ]]
    /\ UNCHANGED <<dwVars, cumVars, vaultVars, ctor, batch, quant, itarget, tproj, fixup, sectorq, bench, rebuild>>

\* ------------------------------------------------ target projection
\* The number of target end years tried, from 2023 on.
NEndYears == 3

\* The stated targets: base year, base magnitude, end year and reduction.
StatedTargets ==
    [ target_base_year : {BASE_YEAR, BASE_YEAR + 1},
      target_base_year_qty : {90, 100},
      target_end_year : 2023..(2022 + NEndYears),
      target_reduction_pct : {Num(0), Rat(1, 4), Rat(1, 2), Num(1)} ]

TargetValueQuadratic(t, y) ==
    LET f == Rat((y - t.target_base_year) * (y - t.target_base_year),
                 (t.target_end_year - t.target_base_year)
                     * (t.target_end_year - t.target_base_year))
    IN  RSub(Num(t.target_base_year_qty),
             RMul(RMul(Num(t.target_base_year_qty), t.target_reduction_pct), f))

\* The target value of year y: the base magnitude less the share of the
\* reduction that the years elapsed are of the years to the end year.
TargetValue(t, y) ==
    LET f == Rat(y - t.target_base_year, t.target_end_year - t.target_base_year)
    IN  RSub(Num(t.target_base_year_qty),
             RMul(RMul(Num(t.target_base_year_qty), t.target_reduction_pct), f))

\* The target series of one company, from the base year of the target to its end year.
ProjectEiTargets(t) ==
    [ y \in t.target_base_year..t.target_end_year |-> TargetValue(t, y) ]

TargetProjectionInit ==
    \E t \in StatedTargets :
        tproj = [ target |-> t, projected_targets |-> <<>>, recomputed |-> <<>> ]

\* The target projection is computed and stored with the company.
StoreProjectedTargets ==
    /\ tproj.projected_targets = <<>>
    /\ tproj' = [tproj EXCEPT !.projected_targets = ProjectEiTargets(tproj.target)]
    /\ UNCHANGED <<dwVars, cumVars, vaultVars, ctor, batch, quant, itarget, traj, fixup, sectorq, bench, rebuild>>

\* The target projection is computed again from the company as stored.
RecomputeTargets ==
    /\ tproj.projected_targets # <<>> /\ tproj.recomputed = <<>>
    /\ tproj' = [tproj EXCEPT !.recomputed = ProjectEiTargets(tproj.target)]
    /\ UNCHANGED <<dwVars, cumVars, vaultVars, ctor, batch, quant, itarget, traj, fixup, sectorq, bench, rebuild>>

TargetProjectionNext == StoreProjectedTargets \/ RecomputeTargets

\* ------------------------------------------------ _fixup_year_value_list
\* The longest list of year values.
NValues == 2

\* The values of an unprocessed list as quantities: None is a dimensionless
\* NaN, a number is dimensionless, a string carries its unit ('nan Mt CO2').
UValues == [m : {"nan", "5"}, u : {"dimensionless", "Mt CO2", "kt CO2"}]

ULists == UNION { [1..n -> UValues] : n \in 0..NValues }

\* The metric argument: None, a dictionary, or an object without `u`.
Metrics == {"None", "dict", "str"}

ResolveMetricInferredOnly(i_list, metric, inferred_metric) ==
    IF metric = "None" THEN inferred_metric
    ELSE IF metric = "dict" THEN "Gt CO2"
    ELSE "AttributeError"

\* The unit of the list: next(... if str(x['value'].u) != 'dimensionless'),
\* else the inferred metric; metric['units'] of a dictionary; metric.u of
\* anything else.
ResolveMetric(i_list, metric, inferred_metric) ==
    IF metric = "None"
    THEN IF \E i \in DOMAIN i_list : i_list[i].u # "dimensionless"
         THEN i_list[CHOOSE i \in DOMAIN i_list :
                        /\ i_list[i].u # "dimensionless"
                        /\ \A j \in 1..(i - 1) : i_list[j].u = "dimensionless"].u
         ELSE inferred_metric
    ELSE IF metric = "dict" THEN "Gt CO2"
    ELSE "AttributeError"

\* The list returned (or the exception raised): every dimensionless value
\* gets the unit of the list, then UProjections_to_IProjections gives every
\* NaN that unit; an empty list is returned before the metric is looked at.
FixupYearValueList(u_list, metric, inferred_metric) ==
    IF u_list = <<>> THEN [raised |-> "", r_list |-> <<>>]
    ELSE LET units == ResolveMetric(u_list, metric, inferred_metric)
             i_list == [ i \in DOMAIN u_list |->
                           IF u_list[i].u = "dimensionless"
                           THEN [u_list[i] EXCEPT !.u = units] ELSE u_list[i] ]
         IN  IF units = "AttributeError" THEN [raised |-> units, r_list |-> <<>>]
             ELSE [ raised |-> "",
                    r_list |-> [ i \in DOMAIN i_list |->
                                   IF i_list[i].m = "nan"
                                   THEN [m |-> "nan", u |-> units] ELSE i_list[i] ] ]

FixupInit ==
    \E l \in ULists, metric \in Metrics :
        fixup = [ u_list |-> l, metric |-> metric, inferred_metric |-> "t CO2",
                  done |-> FALSE, raised |-> "", r_list |-> <<>> ]

FixupList ==
    /\ ~fixup.done
    /\ LET r == FixupYearValueList(fixup.u_list, fixup.metric, fixup.inferred_metric)
       IN  fixup' = [fixup EXCEPT !.done = TRUE, !.raised = r.raised, !.r_list = r.r_list]
    /\ UNCHANGED <<dwVars, cumVars, vaultVars, ctor, batch, quant, itarget, traj, tproj, sectorq, bench, rebuild>>

\* ------------------------------------------------ _sector_to_production_units
Global == [r \in {"Global"} |-> "PJ"]

sector_unit_dict ==
    [ s \in { "Electricity Utilities", "Gas Utilities", "Utilities", "Steel", "Aluminum",
              "Oil & Gas", "Autos", "Trucking", "Cement", "Construction Buildings",
              "Residential Buildings", "Commercial Buildings", "Textiles", "Chemicals" } |->
        CASE s = "Electricity Utilities" ->
                 [r \in {"North America", "Global"} |->
                     IF r = "Global" THEN "GJ" ELSE "MWh"]
          [] s \in {"Gas Utilities", "Utilities"} -> Global
          [] s = "Steel"    -> [Global EXCEPT !["Global"] = "t Steel"]
          [] s = "Aluminum" -> [Global EXCEPT !["Global"] = "t Aluminum"]
          [] s = "Oil & Gas" -> [Global EXCEPT !["Global"] = "mmboe"]
          [] s = "Autos"    -> [Global EXCEPT !["Global"] = "pkm"]
          [] s = "Trucking" -> [Global EXCEPT !["Global"] = "tkm"]
          [] s = "Cement"   -> [Global EXCEPT !["Global"] = "t Cement"]
          [] s \in {"Residential Buildings", "Commercial Buildings"} ->
                 [Global EXCEPT !["Global"] = "billion m**2"]
          [] OTHER -> [Global EXCEPT !["Global"] = "billion USD"] ]

\* The sectors and regions of the companies constructed ("None": no region).
Sectors == DOMAIN sector_unit_dict \cup {"Shipping"}

Regions == {"North America", "Europe", "Global", "None"}

SectorToProductionUnitsGlobalOnly(sector, region) ==
    IF sector \in DOMAIN sector_unit_dict
    THEN [raised |-> "", units |-> sector_unit_dict[sector]["Global"]]
    ELSE [raised |-> "ValueError", units |-> ""]

\* The unit of the sector for the region, else the unit of the sector for
\* 'Global'; ValueError for a sector that has no entry.
SectorToProductionUnits(sector, region) ==
    IF sector \in DOMAIN sector_unit_dict
    THEN LET region_unit_dict == sector_unit_dict[sector]
         IN  [ raised |-> "",
               units |-> IF region \in DOMAIN region_unit_dict
                         THEN region_unit_dict[region] ELSE region_unit_dict["Global"] ]
    ELSE [raised |-> "ValueError", units |-> ""]

SectorInit ==
    \E sector \in Sectors, region \in Regions :
        sectorq = [ sector |-> sector, region |-> region, done |-> FALSE,
                    raised |-> "", production_metric |-> "" ]

\* ICompanyData.__init__ without a production_metric.
InferProductionMetric ==
    /\ ~sectorq.done
    /\ LET r == SectorToProductionUnits(sectorq.sector, sectorq.region)
       IN  sectorq' = [sectorq EXCEPT !.done = TRUE, !.raised = r.raised,
                                      !.production_metric = r.units]
    /\ UNCHANGED <<dwVars, cumVars, vaultVars, ctor, batch, quant, itarget, traj, tproj, fixup, bench, rebuild>>

\* ------------------------------------------------ benchmark providers
NBenchYears == 3

target_end_year == BASE_YEAR + NBenchYears - 1

BenchYears == BASE_YEAR .. target_end_year

\* The (region, sector) pairs a benchmark set may have.
BenchmarkKeys == {"Europe", "Global"} \X {"Steel", "Electricity Utilities"}

BenchmarkSets == (SUBSET BenchmarkKeys) \ {{}}

\* The growth rates of the production benchmark of a pair.
ProductionBenchmark(key) ==
    [ y \in BenchYears |->
        Rat((IF key[1] = "Global" THEN 1 ELSE 2) + (IF key[2] = "Steel" THEN 0 ELSE 2)
               + ((y - BASE_YEAR) % 2), 10) ]

\* The intensities of the intensity benchmark of a pair.
IntensityBenchmark(key) ==
    [ y \in BenchYears |->
        CASE key = <<"Europe", "Steel">> -> Num(10 - 2 * (y - BASE_YEAR))
          [] key = <<"Global", "Steel">> -> Num(12 - 3 * (y - BASE_YEAR))
          [] key = <<"Europe", "Electricity Utilities">> ->
                 IF y \in {BASE_YEAR, target_end_year} THEN Num(5) ELSE Num(7)
          [] OTHER -> Num(4) ]

\* The rows of the company table: ghg_s1s2 is base_year_production times
\* ei_at_base_year.
BenchCompanies ==
    { [ region |-> r, sector |-> sec,
        base_year_production |-> [m |-> Num(p), u |-> "Fe_ton"],
        ei_at_base_year |-> [m |-> Num(e), u |-> "t CO2/Fe_ton"],
        ghg_s1s2 |-> [m |-> Num(p * e), u |-> "t CO2"] ] :
        r \in {"Europe", "Asia"}, sec \in {"Steel", "Electricity Utilities"},
        p \in {2, 3}, e \in {1, 5} }

\* benchmark_regions: the region of the company if some benchmark of the set
\* has that region, else "Global"; then the row of (region, sector) is
\* selected with .loc.
LookupBenchmark(benchmarks, c) ==
    LET benchmark_region == IF c.region \in {k[1] : k \in benchmarks} THEN c.region ELSE "Global"
        key == <<benchmark_region, c.sector>>
    IN  IF key \in benchmarks THEN [raised |-> "", key |-> key]
        ELSE [raised |-> "KeyError", key |-> <<>>]

\* add(1).cumprod(axis=1)
RECURSIVE CumProd(_, _)
CumProd(growth, y) ==
    IF y = BASE_YEAR THEN RAdd(growth[y], Num(1))
    ELSE RMul(CumProd(growth, y - 1), RAdd(growth[y], Num(1)))

DecarbonizationFromFirst(x, first_ei, last_ei) ==
    RDiv(RSub(x, first_ei), RSub(last_ei, first_ei))

Decarbonization(x, first_ei, last_ei) ==
    RDiv(RSub(x, last_ei), RSub(first_ei, last_ei))

BenchInit ==
    \E bs \in BenchmarkSets, c \in BenchCompanies :
        bench = [ benchmarks |-> bs, company |-> c, call |-> "", raised |-> "",
                  key |-> <<>>, values |-> <<>>, unit |-> "" ]

Returned(method, found, values, unit) ==
    [bench EXCEPT !.call = method, !.raised = found.raised, !.key = found.key,
                  !.values = IF found.raised = "" THEN values ELSE <<>>,
                  !.unit = IF found.raised = "" THEN unit ELSE ""]

GetBenchmarkProjections ==
    /\ bench.call = ""
    /\ LET found == LookupBenchmark(bench.benchmarks, bench.company)
       IN  bench' = Returned("get_benchmark_projections", found,
                             ProductionBenchmark(found.key), "dimensionless")
    /\ UNCHANGED <<dwVars, cumVars, vaultVars, ctor, batch, quant, itarget, traj, tproj, fixup, sectorq, rebuild>>

GetIntensityBenchmarks ==
    /\ bench.call = ""
    /\ LET found == LookupBenchmark(bench.benchmarks, bench.company)
       IN  bench' = Returned("_get_intensity_benchmarks", found,
                             IntensityBenchmark(found.key), "t CO2/Fe_ton")
    /\ UNCHANGED <<dwVars, cumVars, vaultVars, ctor, batch, quant, itarget, traj, tproj, fixup, sectorq, rebuild>>

GetCompanyProjectedProduction ==
    /\ bench.call = ""
    /\ LET found == LookupBenchmark(bench.benchmarks, bench.company)
           growth == ProductionBenchmark(found.key)
       IN  bench' = Returned("get_company_projected_production", found,
                             [ y \in BenchYears |->
                                 RMul(CumProd(growth, y), bench.company.ghg_s1s2.m) ],
                             bench.company.ghg_s1s2.u)
    /\ UNCHANGED <<dwVars, cumVars, vaultVars, ctor, batch, quant, itarget, traj, tproj, fixup, sectorq, rebuild>>

GetSDAIntensityBenchmarks ==
    /\ bench.call = ""
    /\ LET found == LookupBenchmark(bench.benchmarks, bench.company)
           intensity_benchmarks == IntensityBenchmark(found.key)
           first_ei == intensity_benchmarks[BASE_YEAR]
           last_ei == intensity_benchmarks[target_end_year]
           ei_base == bench.company.ei_at_base_year
       IN  bench' = Returned("get_SDA_intensity_benchmarks", found,
                             [ y \in BenchYears |->
                                 RAdd(RMul(Decarbonization(intensity_benchmarks[y], first_ei, last_ei),
                                           RSub(ei_base.m, last_ei)),
                                      last_ei) ],
                             ei_base.u)
    /\ UNCHANGED <<dwVars, cumVars, vaultVars, ctor, batch, quant, itarget, traj, tproj, fixup, sectorq, rebuild>>

BenchNext ==
    \/ GetBenchmarkProjections
    \/ GetIntensityBenchmarks
    \/ GetCompanyProjectedProduction
    \/ GetSDAIntensityBenchmarks

\* ------------------------------------------------ DataWarehouse built again
MaxRuns == 2

\* A provider with one company, as ingested.
RebuildInit ==
    \E c \in CompanyRecords :
        rebuild = [ input |-> c, company |-> c, raised |-> FALSE, after |-> <<>> ]

\* DataWarehouse.__init__ over the provider: the target projection, then the
\* consolidation loop; the company is mutated in place.
BuildDataWarehouse ==
    /\ Len(rebuild.after) < MaxRuns
    /\ ~rebuild.raised
    /\ LET r == Consolidate(ProjectTargets(rebuild.company))
       IN  rebuild' = [rebuild EXCEPT !.company = r.c, !.raised = r.err,
                                      !.after = Append(rebuild.after, r.c)]
    /\ UNCHANGED <<dwVars, cumVars, vaultVars, ctor, batch, quant, itarget, traj, tproj, fixup, sectorq, bench>>

\* --------------------------------------------------- specifications
Init == DwInit /\ CumIdle /\ VaultIdle /\ AuxIdle

Spec == Init /\ [][DwNext]_vars

InitCum == CumInit /\ DwIdle /\ VaultIdle /\ AuxIdle

SpecCum == InitCum /\ [][GetPreprocessedCompanyData]_vars

InitVault == VaultInit /\ DwIdle /\ CumIdle /\ AuxIdle

SpecVault == InitVault /\ [][VaultNext]_vars

InitCompany == CtorInit /\ batch = <<>> /\ quant = <<>> /\ itarget = <<>> /\ traj = <<>> /\ tproj = <<>> /\ fixup = <<>> /\ sectorq = <<>> /\ bench = <<>> /\ rebuild = <<>> /\ DwIdle /\ CumIdle /\ VaultIdle

SpecCompany == InitCompany /\ [][ConstructCompany]_vars

InitBatch == BatchInit /\ ctor = <<>> /\ quant = <<>> /\ itarget = <<>> /\ traj = <<>> /\ tproj = <<>> /\ fixup = <<>> /\ sectorq = <<>> /\ bench = <<>> /\ rebuild = <<>> /\ DwIdle /\ CumIdle /\ VaultIdle

SpecBatch == InitBatch /\ [][BuildCompany]_vars

InitUnits == FieldInit /\ ctor = <<>> /\ batch = <<>> /\ itarget = <<>> /\ traj = <<>> /\ tproj = <<>> /\ fixup = <<>> /\ sectorq = <<>> /\ bench = <<>> /\ rebuild = <<>> /\ DwIdle /\ CumIdle /\ VaultIdle

SpecUnits == InitUnits /\ [][UnitsNext]_vars

InitTarget == TargetInit /\ ctor = <<>> /\ batch = <<>> /\ quant = <<>> /\ traj = <<>> /\ tproj = <<>> /\ fixup = <<>> /\ sectorq = <<>> /\ bench = <<>> /\ rebuild = <<>> /\ DwIdle /\ CumIdle /\ VaultIdle

SpecTarget == InitTarget /\ [][ConstructTarget]_vars

InitTrajectory == TrajectoryInit /\ ctor = <<>> /\ batch = <<>> /\ quant = <<>> /\ itarget = <<>> /\ tproj = <<>> /\ fixup = <<>> /\ sectorq = <<>> /\ bench = <<>> /\ rebuild = <<>> /\ DwIdle /\ CumIdle /\ VaultIdle

SpecTrajectory == InitTrajectory /\ [][ProjectTrajectory]_vars

InitTargetProjection == TargetProjectionInit /\ ctor = <<>> /\ batch = <<>> /\ quant = <<>> /\ itarget = <<>> /\ traj = <<>> /\ fixup = <<>> /\ sectorq = <<>> /\ bench = <<>> /\ rebuild = <<>> /\ DwIdle /\ CumIdle /\ VaultIdle

SpecTargetProjection == InitTargetProjection /\ [][TargetProjectionNext]_vars

InitFixup == FixupInit /\ ctor = <<>> /\ batch = <<>> /\ quant = <<>> /\ itarget = <<>> /\ traj = <<>> /\ tproj = <<>> /\ sectorq = <<>> /\ bench = <<>> /\ rebuild = <<>> /\ DwIdle /\ CumIdle /\ VaultIdle

SpecFixup == InitFixup /\ [][FixupList]_vars

InitSector == SectorInit /\ ctor = <<>> /\ batch = <<>> /\ quant = <<>> /\ itarget = <<>> /\ traj = <<>> /\ tproj = <<>> /\ fixup = <<>> /\ bench = <<>> /\ rebuild = <<>> /\ DwIdle /\ CumIdle /\ VaultIdle

SpecSector == InitSector /\ [][InferProductionMetric]_vars

InitBench == BenchInit /\ ctor = <<>> /\ batch = <<>> /\ quant = <<>> /\ itarget = <<>> /\ traj = <<>> /\ tproj = <<>> /\ fixup = <<>> /\ sectorq = <<>> /\ rebuild = <<>> /\ DwIdle /\ CumIdle /\ VaultIdle

SpecBench == InitBench /\ [][BenchNext]_vars

InitRebuild == RebuildInit /\ ctor = <<>> /\ batch = <<>> /\ quant = <<>> /\ itarget = <<>> /\ traj = <<>> /\ tproj = <<>> /\ fixup = <<>> /\ sectorq = <<>> /\ bench = <<>> /\ DwIdle /\ CumIdle /\ VaultIdle

SpecRebuild == InitRebuild /\ [][BuildDataWarehouse]_vars

\* --------------------------------------------------- claims
AllTargetsProjected == \A d \in Companies : companies[d].projected_targets.present

\* C1: a company's S3 data is merged or emptied only after the target
\* projections of all companies have been computed, and the projection never
\* reads a company the consolidation loop has already visited.
C1_ProjectionBeforeConsolidation ==
    /\ staleReads = {}
    /\ \A c \in visited : AllTargetsProjected

\* C1 witness: the loop has merged the S3 emissions of a company into S1S2.
C1_Witness ==
    \E c \in visited :
        /\ input[c].ghg_s3 = [kind |-> "Q", m |-> 1]
        /\ companies[c].ghg_s1s2 = input[c].ghg_s1s2 + 1
        /\ AllTargetsProjected

S3Emptied(c) ==
    /\ c.historic_data.emissions.S3 = <<>>
    /\ c.historic_data.emissions_intensities.S3 = <<>>
    /\ ~c.projected_intensities.S3.present
    /\ ~c.projected_targets.S3.present

\* C2 as stated: after consolidation every company has ghg_s3 = 0, empty
\* historic S3 lists and no S3 projections, whatever its input was.
C2_AllS3ZeroOrEmpty ==
    \A id \in Consolidated :
        /\ companies[id].ghg_s3 = [kind |-> "Q", m |-> 0]
        /\ S3Emptied(companies[id])

\* C2 amended: after consolidation of a company its historic S3 lists are
\* empty and its S3 projections absent; its ghg_s3 is zero when it was a
\* number on input, and is left as it was (None or NaN) when it was missing.
C2_S3ZeroOrEmptyUnlessMissing ==
    \A id \in Consolidated :
        /\ S3Emptied(companies[id])
        /\ IF input[id].ghg_s3.kind = "Q"
           THEN companies[id].ghg_s3 = [kind |-> "Q", m |-> 0]
           ELSE companies[id].ghg_s3 = input[id].ghg_s3

\* C2 witness: a consolidated company that came with S3 data in every series
\* and another one whose ghg_s3 was NaN.
C2_Witness ==
    /\ Phase = "done"
    /\ \E id \in Consolidated :
          /\ input[id].ghg_s3 = [kind |-> "Q", m |-> 1]
          /\ input[id].historic_data.emissions.S3 # <<>>
          /\ input[id].projected_intensities.S3.present
          /\ input[id].projected_intensities.S3.projections # <<>>
    /\ \E id \in Consolidated : input[id].ghg_s3.kind = "NaN"

\* The (S1S2, S3) pairs of lists the loop merges for a company, as it finds
\* them, with what the company holds for the same pair now.
MergePairs(id) ==
    LET b == Before(id)
        c == companies[id]
    IN  (IF b.historic_data.present /\ b.historic_data.emissions.S3 # <<>>
         THEN {[ s1s2 |-> b.historic_data.emissions.S1S2,
                 s3 |-> b.historic_data.emissions.S3,
                 now12 |-> c.historic_data.emissions.S1S2,
                 now3 |-> c.historic_data.emissions.S3 ]}
         ELSE {})
        \cup
        (IF b.historic_data.present /\ b.historic_data.emissions_intensities.S3 # <<>>
         THEN {[ s1s2 |-> b.historic_data.emissions_intensities.S1S2,
                 s3 |-> b.historic_data.emissions_intensities.S3,
                 now12 |-> c.historic_data.emissions_intensities.S1S2,
                 now3 |-> c.historic_data.emissions_intensities.S3 ]}
         ELSE {})
        \cup
        (IF b.projected_intensities.S3.present
         THEN {[ s1s2 |-> b.projected_intensities.S1S2.projections,
                 s3 |-> b.projected_intensities.S3.projections,
                 now12 |-> c.projected_intensities.S1S2.projections,
                 now3 |-> c.projected_intensities.S3.projections ]}
         ELSE {})

\* C3 as stated: whenever the S1S2 list and the S3 list of a merge do not have
\* the same set of years, the merge raises: the company's iteration does not
\* complete, no merged S1S2 list is stored and the S3 list is kept.
C3_MismatchedYearsRaise ==
    \A id \in Companies : \A m \in MergePairs(id) :
        YearsOf(m.s1s2) # YearsOf(m.s3) =>
            /\ id \notin Consolidated
            /\ m.now12 = m.s1s2
            /\ m.now3 = m.s3

\* --------------------------------------------------- claims C4 .. C6
Complete(row) == \A y \in DOMAIN row : row[y].k = "num" /\ row[y].d = 1

\* The sum over the years of intensity times production, in integers.
RECURSIVE DotProduct(_, _, _)
DotProduct(e, q, ys) ==
    IF ys = {} THEN 0
    ELSE LET y == CHOOSE c \in ys : TRUE
         IN  e[y].n * q[y].n + DotProduct(e, q, ys \ {y})

\* projected_emission, projected_production and expected_data of
\* test_get_cumulative_value
TestFrame(rows) == [r \in 0..1 |-> [c \in 0..1 |-> Num(rows[r + 1][c + 1])]]

TestExpected == [r \in 0..1 |-> Num(<<10, 50>>[r + 1])]

MissingYear(ei, production) ==
    \E y \in SqlYears :
        IsNaN(ei[y].ei_s1_by_year) \/ IsNaN(ei[y].ei_s2_by_year) \/ IsNaN(production[y])

AllMissing(ei) ==
    \A y \in SqlYears : IsNaN(ei[y].ei_s1_by_year) /\ IsNaN(ei[y].ei_s2_by_year)

\* C5 as stated: a year whose intensity or production is missing makes the
\* cumulative total missing, a series that is missing altogether gives a
\* missing total, never zero, and no company with such a series has an
\* overshoot ratio of zero.
C5_MissingNeverCoerced ==
    /\ cumulative_emissions # <<>> =>
         \A c \in Companies :
            /\ MissingYear(vault.trajectory[c], vault.production[c])
                 => IsNaN(cumulative_emissions[c].cumulative_trajectory)
            /\ MissingYear(vault.target[c], vault.production[c])
                 => IsNaN(cumulative_emissions[c].cumulative_target)
    /\ overshoot_ratios # <<>> =>
         \A c \in DOMAIN overshoot_ratios :
            /\ AllMissing(vault.trajectory[c])
                 => overshoot_ratios[c].trajectory_overshoot_ratio # Num(0)
            /\ AllMissing(vault.target[c])
                 => overshoot_ratios[c].target_overshoot_ratio # Num(0)

\* temperature_score = scenario temperature + tcre_multiplier * global_budget
\* * (overshoot_ratio - 1)
ClosedFormScore(temperature, global_budget, ratio) ==
    RAdd(temperature, RMul(tcre_multiplier, RMul(global_budget, RSub(ratio, Num(1)))))

IsRatioOf(ratio, cumulative, budget) ==
    IF IsNaN(cumulative) \/ IsNaN(budget) THEN IsNaN(ratio)
    ELSE budget.n # 0 /\ ratio.k = "num" /\ RMul(ratio, budget) = cumulative

\* C6: for every company of the score table, the trajectory and the target
\* temperature score equal benchmark temperature + (tcre / carbon_conversion)
\* * global_budget * (overshoot_ratio - 1) with tcre = 2.2 and
\* carbon_conversion = 3664, the ratio being the cumulative trajectory (target)
\* emissions over the cumulative budget; a ratio of 1 gives the benchmark
\* temperature itself.
C6_ScoreIsClosedForm ==
    temperature_scores # <<>> =>
        /\ tcre = Rat(22, 10) /\ carbon_conversion = Num(3664)
        /\ DOMAIN temperature_scores = DOMAIN cumulative_budget_1
        /\ \A c \in DOMAIN temperature_scores :
              LET E == cumulative_emissions[c]
                  B == cumulative_budget_1[c]
                  R == overshoot_ratios[c]
                  T == temperature_scores[c]
              IN  /\ IsRatioOf(R.trajectory_overshoot_ratio, E.cumulative_trajectory,
                               B.cumulative_budget)
                  /\ IsRatioOf(R.target_overshoot_ratio, E.cumulative_target,
                               B.cumulative_budget)
                  /\ T.trajectory_temperature_score =
                       ClosedFormScore(B.benchmark_temp, B.global_budget,
                                       R.trajectory_overshoot_ratio)
                  /\ T.target_temperature_score =
                       ClosedFormScore(B.benchmark_temp, B.global_budget,
                                       R.target_overshoot_ratio)
                  /\ R.trajectory_overshoot_ratio = Num(1)
                       => T.trajectory_temperature_score = B.benchmark_temp
                  /\ R.target_overshoot_ratio = Num(1)
                       => T.target_temperature_score = B.benchmark_temp

\* C6 witness: a company whose trajectory ratio is exactly 1 and scores the
\* benchmark temperature, and whose target ratio is a number other than 1.
C6_Witness ==
    /\ temperature_scores # <<>>
    /\ "c1" \in DOMAIN temperature_scores
    /\ overshoot_ratios["c1"].trajectory_overshoot_ratio = Num(1)
    /\ temperature_scores["c1"].trajectory_temperature_score = Rat(3, 2)
    /\ overshoot_ratios["c1"].target_overshoot_ratio.k = "num"
    /\ overshoot_ratios["c1"].target_overshoot_ratio # Num(1)
    /\ temperature_scores["c1"].target_temperature_score # Rat(3, 2)

\* --------------------------------------------------- claims C7 .. C10
Available(x) == ~IsNaN(x)

\* The companies of the call that have a row in temperature_scores.
Found == IF call = <<>> THEN {} ELSE call.company_ids \cap DOMAIN temperature_scores

\* C7: when both scores of a company are available its final score is
\* probability * target + (1 - probability) * trajectory, for a probability
\* in [0,1] whose default is 0.5; a probability below 0 or above 1 raises an
\* error and no score is produced.
C7_BlendedByProbability ==
    /\ TARGET_PROBABILITY_DEFAULT = Rat(1, 2)
    /\ call # <<>> =>
         /\ call.probability \in {Rat(-1, 2), Rat(3, 2)} =>
               /\ call.raised = "ValueError"
               /\ pa_temp_scores = <<>>
               /\ weighted_scores = <<>>
         /\ call.probability \in {Num(0), Rat(1, 2), Num(1)} =>
               /\ call.raised = ""
               /\ \A c \in Found :
                     LET target == temperature_scores[c].target_temperature_score
                         trajectory == temperature_scores[c].trajectory_temperature_score
                     IN  Available(target) /\ Available(trajectory) =>
                           RSub(pa_temp_scores[c], trajectory) =
                             RMul(call.probability, RSub(target, trajectory))

\* C7 witness: a company with two different scores, blended with the default
\* probability.
C7_Witness ==
    /\ call # <<>>
    /\ call.probability = TARGET_PROBABILITY_DEFAULT
    /\ \E c \in Found :
          /\ Available(temperature_scores[c].target_temperature_score)
          /\ Available(temperature_scores[c].trajectory_temperature_score)
          /\ temperature_scores[c].target_temperature_score
               # temperature_scores[c].trajectory_temperature_score
          /\ Available(pa_temp_scores[c])

\* C8 as stated: when exactly one of the two scores of a company is
\* available, the final score is that one; it is never missing.
C8_SingleScoreIsFinal ==
    pa_temp_scores # <<>> =>
        \A c \in Found :
            LET target == temperature_scores[c].target_temperature_score
                trajectory == temperature_scores[c].trajectory_temperature_score
            IN  /\ Available(trajectory) /\ ~Available(target)
                     => pa_temp_scores[c] = trajectory
                /\ Available(target) /\ ~Available(trajectory)
                     => pa_temp_scores[c] = target

\* The companies the aggregate is taken over: those with a score and a
\* weighting factor.
Included ==
    {c \in DOMAIN pa_temp_scores :
        /\ Available(pa_temp_scores[c])
        /\ c \in Companies
        /\ Available(vault.company[c].factor)}

RECURSIVE Total(_, _)
Total(f, ids) ==
    IF ids = {} THEN Num(0)
    ELSE LET c == CHOOSE x \in ids : TRUE
         IN  RAdd(f[c], Total(f, ids \ {c}))

IncludedWeight == Total([c \in Included |-> vault.company[c].factor], Included)

\* The weighted mean of the scores of the included companies.
WeightedMean ==
    RDiv(Total([c \in Included |-> RMul(vault.company[c].factor, pa_temp_scores[c])],
               Included),
         IncludedWeight)

\* The aggregate: the contributions of the included companies, added up.
PortfolioScore == Total([c \in Included |-> weighted_scores.retval[c]], Included)

\* C9 as stated: a company with neither score has a missing final score, and
\* the aggregate is the weighted mean of the companies that have a score.
C9_UnscoredLeftOut ==
    /\ pa_temp_scores # <<>> =>
         \A c \in DOMAIN pa_temp_scores :
            (c \notin Found
               \/ (/\ ~Available(temperature_scores[c].target_temperature_score)
                   /\ ~Available(temperature_scores[c].trajectory_temperature_score)))
              => IsNaN(pa_temp_scores[c])
    /\ (weighted_scores # <<>> /\ IncludedWeight # Num(0)) =>
         PortfolioScore = WeightedMean

\* C10 as stated: the normalized weights of the included companies add up to
\* 1, the portfolio score is the sum of weight * score over them, and their
\* relative contributions add up to 1.
C10_WeightsSumToOne ==
    (weighted_scores # <<>> /\ IncludedWeight # Num(0)) =>
        LET weight == [c \in Included |->
                          RDiv(weighted_scores.weights[c], weighted_scores.weight_sum)]
        IN  /\ Total(weight, Included) = Num(1)
            /\ PortfolioScore =
                 Total([c \in Included |-> RMul(weight[c], pa_temp_scores[c])], Included)
            /\ PortfolioScore = WeightedMean
            /\ PortfolioScore # Num(0) =>
                 Total([c \in Included |->
                          RDiv(weighted_scores.retval[c], PortfolioScore)], Included)
                   = Num(1)

\* --------------------------------------------------- claims C11 .. C12
\* C11 as stated: the normalizing denominator is the sum of the weight
\* factors of exactly the companies that have both a score and a weight
\* factor, and the contribution of each of them is its score times its
\* factor over that sum, whatever the other companies of the portfolio lack.
C11_DenominatorOverIncluded ==
    weighted_scores # <<>> =>
        /\ weighted_scores.weight_sum = IncludedWeight
        /\ IncludedWeight # Num(0) =>
             \A c \in Included :
                weighted_scores.retval[c] =
                    RDiv(RMul(pa_temp_scores[c], vault.company[c].factor), IncludedWeight)

\* C12 as stated: when the total weight of the included companies is zero the
\* aggregation fails with an error: no series of contributions is returned,
\* so a returned series never comes from a zero total weight and holds no
\* infinite contribution.
C12_ZeroTotalWeightFails ==
    weighted_scores # <<>> =>
        /\ IncludedWeight # Num(0)
        /\ weighted_scores.weight_sum # Num(0)
        /\ \A c \in DOMAIN weighted_scores.retval : weighted_scores.retval[c].k # "inf"

\* --------------------------------------------------- claims C13, C20
\* C13 as stated: a company record is never created with a missing (NaN)
\* base_year_production or ghg_s1s2: when the value is not supplied and no
\* non-missing historic value can be derived, the construction fails.
C13_NoRecordWithMissingBase ==
    (ctor # <<>> /\ ctor.built # <<>> /\ ctor.built.raised = "") =>
        /\ ctor.built.base_year_production.k = "num"
        /\ ctor.built.ghg_s1s2.k = "num"

HasValue(list) == \E i \in 1..Len(list) : ~IsNaN(list[i].value)

\* The value of the most recent year of the list that has one.
Latest(list) ==
    LET i == CHOOSE i \in 1..Len(list) :
                /\ ~IsNaN(list[i].value)
                /\ \A j \in 1..Len(list) :
                      ~IsNaN(list[j].value) => list[j].year <= list[i].year
    IN  list[i].value

\* C20 as stated: a ghg_s1s2 that is not supplied is the most recent
\* non-missing value of the historic S1S2 emissions; else of S1 plus S2
\* emissions; else the most recent S1S2 intensity times the base-year
\* production; else the S1 plus S2 intensity times the base-year production.
C20_GhgS1S2Preference ==
    (ctor # <<>> /\ ctor.built # <<>> /\ ctor.args.ghg_s1s2 = None
        /\ ctor.args.historic_data.present) =>
        LET h == ctor.args.historic_data
            e == h.emissions
            ei == h.emissions_intensities
            known == ctor.args.base_year_production # None \/ HasValue(h.productions)
            production == IF ctor.args.base_year_production # None
                          THEN ctor.args.base_year_production
                          ELSE Latest(h.productions)
            Is(v) == ctor.built.raised = "" /\ ctor.built.ghg_s1s2 = v
        IN  IF HasValue(e.S1S2) THEN Is(Latest(e.S1S2))
            ELSE IF HasValue(e.S1) /\ HasValue(e.S2)
            THEN Is(RAdd(Latest(e.S1), Latest(e.S2)))
            ELSE IF HasValue(ei.S1S2) /\ known
            THEN Is(RMul(Latest(ei.S1S2), production))
            ELSE IF HasValue(ei.S1) /\ HasValue(ei.S2) /\ known
            THEN Is(RMul(RAdd(Latest(ei.S1), Latest(ei.S2)), production))
            ELSE TRUE

\* --------------------------------------------------- claim C14
\* The rows of the batch that build, in row order.
RECURSIVE GoodRows(_)
GoodRows(n) ==
    IF n = 0 THEN <<>>
    ELSE IF ParseObj(batch.rows[n]) = "" THEN Append(GoodRows(n - 1), n)
    ELSE GoodRows(n - 1)

\* C14 as stated: a row that fails to build is dropped and nothing else: the
\* batch call does not raise, and once the loop is over its output is the
\* companies of all the other rows.
C14_FailureDropsOnlyThatCompany ==
    batch # <<>> =>
        /\ batch.raised = ""
        /\ batch.i > Len(batch.rows) =>
              batch.model_companies = GoodRows(Len(batch.rows))

\* --------------------------------------------------- claim C15
\* The field's type allows the unit.
Compatible(type, u) == \E d \in DimsList(type) : Check(u, d)

\* C15 as stated: a value is stored in a unit-typed field only if its unit is
\* compatible with the field's type, a value of an incompatible unit is
\* rejected with a DimensionalityError, and the product of an intensity and a
\* production amount has the dimension of emissions.
C15_FieldsHoldCompatibleUnits ==
    (quant # <<>> /\ quant.done) =>
        /\ quant.stored => Compatible(quant.field.type, quant.unit)
        /\ ~Compatible(quant.field.type, quant.unit) =>
              (~quant.stored /\ quant.raised = "DimensionalityError")
        /\ quant.production # "" => quant.emissions = GetDimensionality("Mt CO2")

Growth(y) == RSub(RDiv(traj.projections[y + 1], traj.projections[y]), Num(1))

\* C16: the projected series covers every year from the base year to the
\* target year, and from the last historic year on it grows by one and the
\* same yearly rate, which is at least LOWER_DELTA and at most UPPER_DELTA.
C16_GrowthWithinDeltas ==
    (traj # <<>> /\ traj.done) =>
        /\ DOMAIN traj.projections = BASE_YEAR..traj.target_year
        /\ \A y \in LastHistoricYear(traj.history)..(traj.target_year - 1) :
              /\ RLe(LOWER_DELTA, Growth(y)) /\ RLe(Growth(y), UPPER_DELTA)
              /\ Growth(y) = Growth(LastHistoricYear(traj.history))

\* A history that halves and one that doubles have been projected over three
\* years: the rate is the lower, respectively the upper, delta.
C16_Witness ==
    /\ traj # <<>> /\ traj.done
    /\ traj.history \in {<<200, 100>>, <<100, 200>>}
    /\ traj.target_year = LastHistoricYear(traj.history) + 3
    /\ Growth(traj.target_year - 1) \in {LOWER_DELTA, UPPER_DELTA}

C19_NoCrossCompanyDependency ==
    /\ Phase \in {"consolidate", "done", "raised"} =>
          \A c \in Companies \ visited : companies[c] = Before(c)
    /\ Phase \in {"done", "raised"} =>
          \A c \in Companies :
              ~Consolidate(Before(c)).err => companies[c] = Consolidate(Before(c)).c

\* --------------------------------------------------- claim C21
\* The first year of a row of projected targets.
FirstYear(row) == CHOOSE c \in DOMAIN row : \A o \in DOMAIN row : c <= o

\* The value the historic S1S2 intensities of company r have for a year.
HistoricEntries(r, year) ==
    { e \in { frames.historic_ei[r].S1S2[i] : i \in DOMAIN frames.historic_ei[r].S1S2 } :
        e.year = year }

\* C21 as stated: the call handles every row: a missing first value with a
\* historic intensity of that year is replaced by it, a missing first value
\* without one stays missing, a first value that is not missing is kept, and
\* no other year changes.
C21_RaggedLeftEdge ==
    frames # <<>> =>
        /\ aggregates.raised = ""
        /\ aggregates.called =>
             \A r \in Companies :
                LET before == frames.projected_targets[r]
                    after  == aggregates.projected_targets[r]
                    year   == FirstYear(before)
                IN  /\ \A y \in DOMAIN before \ {year} : after[y] = before[y]
                    /\ ~IsNaN(before[year]) => after[year] = before[year]
                    /\ (IsNaN(before[year]) /\ HistoricEntries(r, year) = {}) =>
                          IsNaN(after[year])
                    /\ (IsNaN(before[year]) /\ HistoricEntries(r, year) # {}) =>
                          \E e \in HistoricEntries(r, year) : after[year] = e.value

\* --------------------------------------------------- claim C22
\* The positions of the non-missing values of the unprocessed list.
NonMissing == { i \in DOMAIN fixup.u_list : fixup.u_list[i].m # "nan" }

\* The positions of the values of the unprocessed list that have a unit.
WithUnit == { i \in DOMAIN fixup.u_list : fixup.u_list[i].u # "dimensionless" }

First(positions) == CHOOSE i \in positions : \A j \in positions : i <= j

\* C22 as stated: in the list returned every missing value carries the unit
\* of the series (the explicit metric, else the unit of the first non-missing
\* value, else the inferred metric) and none is dimensionless, and the values
\* that are not missing are as they were given.
C22_MissingCarrySeriesUnit ==
    (fixup # <<>> /\ fixup.done /\ fixup.raised = "") =>
        LET series == IF fixup.metric = "dict" THEN "Gt CO2"
                      ELSE IF NonMissing # {} THEN fixup.u_list[First(NonMissing)].u
                      ELSE fixup.inferred_metric
        IN  \A i \in DOMAIN fixup.u_list :
               IF i \in NonMissing
               THEN fixup.r_list[i] = fixup.u_list[i]
               ELSE fixup.r_list[i].u = series /\ fixup.r_list[i].u # "dimensionless"

\* C22, amended: the unit of the series is the explicit metric, else the
\* first unit other than 'dimensionless' that a value of the list has,
\* missing or not, else the inferred metric.  In the list returned no value
\* is dimensionless: every missing value and every value given without a
\* unit carries the unit of the series; the magnitudes, and the units of the
\* non-missing values that had one, are as given.
C22_NoneLeftDimensionless ==
    (fixup # <<>> /\ fixup.done /\ fixup.raised = "") =>
        LET series == IF fixup.metric = "dict" THEN "Gt CO2"
                      ELSE IF WithUnit # {} THEN fixup.u_list[First(WithUnit)].u
                      ELSE fixup.inferred_metric
        IN  /\ Len(fixup.r_list) = Len(fixup.u_list)
            /\ \A i \in DOMAIN fixup.u_list :
                  /\ fixup.r_list[i].m = fixup.u_list[i].m
                  /\ fixup.r_list[i].u # "dimensionless"
                  /\ fixup.r_list[i].u =
                        IF i \in NonMissing /\ i \in WithUnit
                        THEN fixup.u_list[i].u ELSE series

\* A list of a missing value without a unit and a value in Mt CO2, without
\* an explicit metric, has been processed: the missing value is in Mt CO2.
C22_Witness ==
    /\ fixup # <<>> /\ fixup.done /\ fixup.raised = "" /\ fixup.metric = "None"
    /\ fixup.u_list = << [m |-> "nan", u |-> "dimensionless"], [m |-> "5", u |-> "Mt CO2"] >>
    /\ fixup.r_list[1] = [m |-> "nan", u |-> "Mt CO2"]

\* --------------------------------------------------- claim C23
\* The (sector, region) pairs of the table, with their units.
SectorRegionUnits ==
    { <<sec, reg, sector_unit_dict[sec][reg]>> :
        <<sec, reg>> \in { p \in (DOMAIN sector_unit_dict) \X Regions :
                             p[2] \in DOMAIN sector_unit_dict[p[1]] } }

\* C23: an absent production_metric is the unit of (sector, region) if the
\* table has that pair, otherwise the unit of (sector, 'Global'); a sector
\* that is not in the table makes the construction fail, and the unit is
\* never that of another sector's entry.
C23_TwoLevelLookup ==
    (sectorq # <<>> /\ sectorq.done) =>
        LET sec    == sectorq.sector
            reg    == sectorq.region
            own    == { t \in SectorRegionUnits : t[1] = sec }
            exact  == { t \in own : t[2] = reg }
            global == { t \in own : t[2] = "Global" }
        IN  IF own = {} THEN sectorq.raised # ""
            ELSE /\ sectorq.raised = ""
                 /\ \E t \in (IF exact # {} THEN exact ELSE global) :
                        sectorq.production_metric = t[3]
                 /\ \E t \in own : sectorq.production_metric = t[3]

\* An electricity utility of North America has got MWh, one of Europe GJ.
C23_Witness ==
    /\ sectorq # <<>> /\ sectorq.done /\ sectorq.sector = "Electricity Utilities"
    /\ \/ sectorq.region = "North America" /\ sectorq.production_metric = "MWh"
       \/ sectorq.region = "Europe" /\ sectorq.production_metric = "GJ"

\* --------------------------------------------------- claim C24
\* C24: the benchmark series used for a company is that of (region, sector)
\* if the benchmark set has the pair, otherwise that of ('Global', sector);
\* the lookup fails only if the set has neither, also when the region of the
\* company is in the set for other sectors only; the company row and the
\* benchmark set are left as they were.
C24_RegionElseGlobal ==
    (bench # <<>> /\ bench.call \in {"get_benchmark_projections", "_get_intensity_benchmarks"}) =>
        LET exact  == <<bench.company.region, bench.company.sector>>
            global == <<"Global", bench.company.sector>>
            series == IF bench.call = "get_benchmark_projections"
                      THEN ProductionBenchmark(bench.key) ELSE IntensityBenchmark(bench.key)
        IN  IF exact \in bench.benchmarks
            THEN bench.raised = "" /\ bench.key = exact /\ bench.values = series
            ELSE IF global \in bench.benchmarks
            THEN bench.raised = "" /\ bench.key = global /\ bench.values = series
            ELSE bench.raised # ""

\* --------------------------------------------------- claim C25
\* C25: the projected production of a year is the base-year production of
\* the company times the product of (1 + growth) over the benchmark growth
\* rates from the base year through that year, in the production unit of
\* the company.
C25_ProductionCompounds ==
    (bench # <<>> /\ bench.call = "get_company_projected_production" /\ bench.raised = "") =>
        /\ bench.unit = bench.company.base_year_production.u
        /\ \A y \in BenchYears :
               bench.values[y] = RMul(bench.company.base_year_production.m,
                                      CumProd(ProductionBenchmark(bench.key), y))

\* --------------------------------------------------- claim C26
\* C26: for a benchmark whose base-year and end-year intensities differ, the
\* SDA path of year y is last + (company_base - last) * (bm[y] - last) /
\* (bm[base] - last), last being the benchmark intensity of the target end
\* year; it is the company's base-year intensity at the base year and the
\* benchmark's end-year intensity at the target end year.
C26_SdaAnchored ==
    (bench # <<>> /\ bench.call = "get_SDA_intensity_benchmarks" /\ bench.raised = "") =>
        LET bm   == IntensityBenchmark(bench.key)
            last == bm[target_end_year]
            company_base == bench.company.ei_at_base_year.m
        IN  bm[BASE_YEAR] # last =>
              /\ \A y \in BenchYears :
                     bench.values[y] =
                         RAdd(last, RDiv(RMul(RSub(company_base, last), RSub(bm[y], last)),
                                         RSub(bm[BASE_YEAR], last)))
              /\ bench.values[BASE_YEAR] = company_base
              /\ bench.values[target_end_year] = last

\* A path was made from a benchmark that falls from the base year to the end
\* year, for a company whose base-year intensity is not the benchmark's.
C26_Witness ==
    /\ bench # <<>> /\ bench.call = "get_SDA_intensity_benchmarks" /\ bench.raised = ""
    /\ IntensityBenchmark(bench.key)[BASE_YEAR] # IntensityBenchmark(bench.key)[target_end_year]
    /\ bench.company.ei_at_base_year.m # IntensityBenchmark(bench.key)[BASE_YEAR]
    /\ bench.values[BASE_YEAR] # bench.values[target_end_year]

\* --------------------------------------------------- claim C27
\* A list with one entry per year of the horizon, in increasing year order.
CoversHorizon(list) ==
    /\ Len(list) = NYears
    /\ \A i \in 1..Len(list) : list[i].year = BASE_YEAR + i - 1

\* C27: after projection and consolidation the S1S2 projected targets and the
\* S1S2 projected intensities of a company have the same length and years,
\* one entry per year from the base year to the target end year, in
\* strictly increasing year order.
C27_SeriesCoverHorizon ==
    \A id \in Consolidated :
        ( /\ CoversHorizon(Before(id).projected_intensities.S1S2.projections)
          /\ CoversHorizon(Before(id).projected_targets.S1S2.projections) ) =>
            /\ Len(companies[id].projected_targets.S1S2.projections)
                 = Len(companies[id].projected_intensities.S1S2.projections)
            /\ CoversHorizon(companies[id].projected_intensities.S1S2.projections)
            /\ CoversHorizon(companies[id].projected_targets.S1S2.projections)

\* --------------------------------------------------- claim C28
ValuesAt(list, y) == { list[i].value : i \in { j \in 1..Len(list) : list[j].year = y } }

\* The pairs of MergePairs and the pair of the projected targets.
AllMergePairs(id) ==
    MergePairs(id) \cup
    (IF Before(id).projected_targets.S3.present
     THEN {[ s1s2 |-> Before(id).projected_targets.S1S2.projections,
             s3 |-> Before(id).projected_targets.S3.projections,
             now12 |-> companies[id].projected_targets.S1S2.projections,
             now3 |-> companies[id].projected_targets.S3.projections ]}
     ELSE {})

\* C28: consolidation conserves emissions: in every series the S1S2 value of
\* a year afterwards is the S1S2 value plus the S3 value of that year before,
\* no year of the S1S2 series is dropped, and ghg_s1s2 grows by ghg_s3 when
\* ghg_s3 is not missing and is unchanged when it is.
C28_ConsolidationConserves ==
    \A id \in Consolidated :
        /\ \A m \in AllMergePairs(id) :
              /\ YearsOf(m.s1s2) \subseteq YearsOf(m.now12)
              /\ \A y \in YearsOf(m.s1s2) \cup YearsOf(m.s3) :
                    ValuesAt(m.now12, y) =
                        { a + b : <<a, b>> \in
                            (IF ValuesAt(m.s1s2, y) = {} THEN {0} ELSE ValuesAt(m.s1s2, y))
                            \X (IF ValuesAt(m.s3, y) = {} THEN {0} ELSE ValuesAt(m.s3, y)) }
        /\ companies[id].ghg_s1s2 =
              input[id].ghg_s1s2 + (IF input[id].ghg_s3.kind = "Q" THEN input[id].ghg_s3.m ELSE 0)

OfYear(list, y) == { list[i].value : i \in { j \in 1..Len(list) : list[j].year = y } }

\* The year of the most recent production that has a value.
ProductionYear ==
    LET l == ctor.args.historic_data.productions
    IN  CHOOSE y \in HistYears :
            /\ \E v \in OfYear(l, y) : ~IsNaN(v)
            /\ \A z \in HistYears : (\E v \in OfYear(l, z) : ~IsNaN(v)) => z <= y

\* C30: when base_year_production comes from the production history, a
\* ghg_s1s2 and a ghg_s3 that come from the history are the value of the
\* year of that production (emissions, or intensity times the production of
\* that year) or missing, never a value of another year.
C30_BaseValuesOfOneYear ==
    ( /\ ctor # <<>> /\ ctor.built # <<>> /\ ctor.built.raised = ""
      /\ ctor.args.base_year_production = None
      /\ ctor.args.historic_data.present
      /\ HasValue(ctor.args.historic_data.productions) ) =>
        LET h  == ctor.args.historic_data
            e  == h.emissions
            ei == h.emissions_intensities
            y  == ProductionYear
            Sums(a, b) == { RAdd(v, w) : <<v, w>> \in OfYear(a, y) \X OfYear(b, y) }
            Times(vs) == { RMul(v, p) : <<v, p>> \in vs \X OfYear(h.productions, y) }
        IN  /\ ctor.built.base_year_production \in OfYear(h.productions, y)
            /\ ctor.args.ghg_s1s2 = None =>
                  \/ IsNaN(ctor.built.ghg_s1s2)
                  \/ ctor.built.ghg_s1s2 \in
                        OfYear(e.S1S2, y) \cup Sums(e.S1, e.S2)
                        \cup Times(OfYear(ei.S1S2, y)) \cup Times(Sums(ei.S1, ei.S2))
            /\ ctor.args.ghg_s3 = None =>
                  \/ ctor.built.ghg_s3 = None
                  \/ IsNaN(ctor.built.ghg_s3)
                  \/ ctor.built.ghg_s3 \in OfYear(e.S3, y) \cup Times(OfYear(ei.S3, y))

\* The production history has its value in the first year only and the S1S2
\* emissions have values up to the last year: ghg_s1s2 is missing, and the
\* S3 emissions of the first year are not taken either.
C30_Witness ==
    /\ ctor # <<>> /\ ctor.built # <<>> /\ ctor.built.raised = ""
    /\ ctor.args.base_year_production = None /\ ctor.args.ghg_s1s2 = None
    /\ ctor.args.ghg_s3 = None
    /\ ctor.args.historic_data.present
    /\ HasValue(ctor.args.historic_data.productions)
    /\ ProductionYear = BASE_YEAR
    /\ Len(ctor.args.historic_data.emissions.S1S2) = NHistYears
    /\ ~IsNaN(ctor.args.historic_data.emissions.S1S2[NHistYears].value)
    /\ HasValue(ctor.args.historic_data.emissions.S3)
    /\ IsNaN(ctor.built.ghg_s1s2)
    /\ IsNaN(ctor.built.ghg_s3)

====
